---- MODULE Spec2Model ----
(***************************************************************************)
(* Relay Guard Bot: the message classifier (analyzer.py) with its          *)
(* per-sender rate tracker, driven by a clock.                             *)
(*                                                                         *)
(* Texts are TLA+ strings over ASCII.  The Cyrillic entries of the         *)
(* source's keyword lists and patterns cannot occur in an ASCII text and   *)
(* are listed in comments next to the list they belong to.                 *)
(* Confidences are percentages (0.95 is 95); times are seconds.            *)
(***************************************************************************)
EXTENDS Integers, Sequences, FiniteSets, TLC

(***************************************************************************)
(* Characters and Python's str operations                                  *)
(***************************************************************************)
LowerChars == "abcdefghijklmnopqrstuvwxyz"
UpperChars == "ABCDEFGHIJKLMNOPQRSTUVWXYZ"
DigitChars == "0123456789"

Ch(s, i) == SubSeq(s, i, i)

CharsOf(s) == {Ch(s, i) : i \in 1..Len(s)}

\* str.isupper() of one character
isupper(c) == c \in CharsOf(UpperChars)

\* the \w class (ASCII part)
WordChars == CharsOf(LowerChars) \cup CharsOf(UpperChars) \cup CharsOf(DigitChars) \cup {"_"}

\* the \s class (ASCII part)
SpaceChars == {" ", "\t", "\n", "\r"}

LowerCh(c) ==
    IF isupper(c)
    THEN Ch(LowerChars, CHOOSE i \in 1..Len(UpperChars) : Ch(UpperChars, i) = c)
    ELSE c

\* s[i..j] lower-cased, by halves
RECURSIVE LowerRange(_, _, _)
LowerRange(s, i, j) ==
    IF i > j THEN ""
    ELSE IF i = j THEN LowerCh(Ch(s, i))
    ELSE LET mid == (i + j) \div 2
         IN  LowerRange(s, i, mid) \o LowerRange(s, mid + 1, j)

\* str.lower()
lower(s) == LowerRange(s, 1, Len(s))

\* Python's  sub in s
In(sub, s) == \E i \in 1..(Len(s) - Len(sub) + 1) : SubSeq(s, i, i + Len(sub) - 1) = sub

\* any(kw in s for kw in kws)
AnyIn(kws, s) == \E k \in 1..Len(kws) : In(kws[k], s)

\* sum(1 for kw in kws if kw in s)
CountIn(kws, s) == Cardinality({k \in 1..Len(kws) : In(kws[k], s)})

\* str(n) for the small counts that appear in reasons
RECURSIVE str(_)
str(n) == IF n < 10 THEN Ch(DigitChars, n + 1) ELSE str(n \div 10) \o Ch(DigitChars, (n % 10) + 1)

Max(S) == CHOOSE m \in S : \A x \in S : x <= m

(***************************************************************************)
(* Regular expressions: the constructs the source's patterns use, and      *)
(* re.search / re.findall over them.  Match(r, s, i) is the set of         *)
(* positions at which a match of r that starts at position i can end       *)
(* (the position after its last character).                                *)
(***************************************************************************)
Lit(str_) == [k |-> "lit", s |-> str_]
Dot == [k |-> "dot"]
Cls(cs) == [k |-> "cls", cs |-> cs]
NotCls(cs) == [k |-> "ncls", cs |-> cs]
WordB == [k |-> "wordb"]
Cat(rs) == [k |-> "cat", rs |-> rs]
Alt(rs) == [k |-> "alt", rs |-> rs]
Inf == -1
Rep(r, lo, hi) == [k |-> "rep", r |-> r, lo |-> lo, hi |-> hi]
Star(r) == Rep(r, 0, Inf)
Plus(r) == Rep(r, 1, Inf)
Opt(r) == Rep(r, 0, 1)
NegLook(r) == [k |-> "neglook", r |-> r]
Words(ws) == Alt([i \in 1..Len(ws) |-> Lit(ws[i])])

IsWordAt(s, i) == i >= 1 /\ i <= Len(s) /\ Ch(s, i) \in WordChars

RECURSIVE Match(_, _, _), MatchCat(_, _, _, _), MatchRep(_, _, _, _)

Match(r, s, i) ==
    CASE r.k = "lit" ->
            IF i + Len(r.s) - 1 <= Len(s) /\ SubSeq(s, i, i + Len(r.s) - 1) = r.s
            THEN {i + Len(r.s)} ELSE {}
      [] r.k = "dot" ->
            IF i <= Len(s) /\ Ch(s, i) # "\n" THEN {i + 1} ELSE {}
      [] r.k = "cls" ->
            IF i <= Len(s) /\ Ch(s, i) \in r.cs THEN {i + 1} ELSE {}
      [] r.k = "ncls" ->
            IF i <= Len(s) /\ Ch(s, i) \notin r.cs THEN {i + 1} ELSE {}
      [] r.k = "wordb" ->
            IF IsWordAt(s, i - 1) # IsWordAt(s, i) THEN {i} ELSE {}
      [] r.k = "cat" -> MatchCat(r.rs, 1, s, {i})
      [] r.k = "alt" -> UNION {Match(r.rs[n], s, i) : n \in 1..Len(r.rs)}
      [] r.k = "rep" -> MatchRep(r, s, {i}, 0)
      [] r.k = "neglook" -> IF Match(r.r, s, i) = {} THEN {i} ELSE {}

MatchCat(rs, n, s, from) ==
    IF n > Len(rs) \/ from = {} THEN from
    ELSE MatchCat(rs, n + 1, s, UNION {Match(rs[n], s, j) : j \in from})

\* from: the positions reached after exactly n repetitions
MatchRep(r, s, from, n) ==
    LET here == IF n >= r.lo THEN from ELSE {}
        more == UNION {Match(r.r, s, j) : j \in from}
    IN  IF from = {} \/ (r.hi # Inf /\ n >= r.hi) \/ n > Len(s) THEN here
        ELSE here \cup MatchRep(r, s, more, n + 1)

\* re.search(pattern, s) is not None
search(r, s) == \E i \in 1..(Len(s) + 1) : Match(r, s, i) # {}

\* re.search(pattern, s, re.IGNORECASE): the patterns are lower-case
search_ignorecase(r, s) == search(r, lower(s))

\* re.findall for a greedy pattern without groups: leftmost, longest,
\* non-overlapping matches in order
RECURSIVE FindAllFrom(_, _, _)
FindAllFrom(r, s, from) ==
    LET starts == {i \in from..(Len(s) + 1) : Match(r, s, i) # {}}
    IN  IF starts = {} THEN <<>>
        ELSE LET i == CHOOSE m \in starts : \A x \in starts : m <= x
                 e == Max(Match(r, s, i))
             IN  <<SubSeq(s, i, e - 1)>> \o FindAllFrom(r, s, IF e > i THEN e ELSE i + 1)

findall(r, s) == FindAllFrom(r, s, 1)

(***************************************************************************)
(* config.py                                                               *)
(***************************************************************************)
MAX_MESSAGES_PER_MINUTE == 10
MAX_LINKS_PER_MESSAGE == 2

\* also: "заработок", "инвестиции", "крипта", "бесплатно"
SUSPICIOUS_KEYWORDS == <<"crypto", "invest", "earn money", "click here", "free bitcoin">>

SPAM_PATTERNS == <<
    [src |-> "t\\.me/(?!.*relay)",
     re  |-> Cat(<<Lit("t.me/"), NegLook(Cat(<<Star(Dot), Lit("relay")>>))>>)],
    [src |-> "bit\\.ly", re |-> Lit("bit.ly")],
    [src |-> "tinyurl", re |-> Lit("tinyurl")],
    [src |-> "@\\w+bot\\b",
     re  |-> Cat(<<Lit("@"), Plus(Cls(WordChars)), Lit("bot"), WordB>>)] >>

(***************************************************************************)
(* analyzer.py: AnalysisResult and the checks                              *)
(***************************************************************************)
AnalysisResult(is_violation, violation_type, confidence, reason, should_delete, should_warn, should_mute, should_ban) ==
    [is_violation |-> is_violation, violation_type |-> violation_type,
     confidence |-> confidence, reason |-> reason,
     should_delete |-> should_delete, should_warn |-> should_warn,
     should_mute |-> should_mute, should_ban |-> should_ban]

\* Python's None, as the return value of a check and as violation_type
None == [none |-> TRUE]
NoType == "None"

\* also: "обновление", "приложение", "баг", "ошибка", "установка",
\* "скачать", "версия", "откат", "бэкап", "вопрос"
RELAY_KEYWORDS == <<
    "relay", "update", "app", "macos", "mac", "homebrew", "brew",
    "install", "download", "version", "bug", "feature", "crash",
    "error", "issue", "help", "question", "rollback", "backup">>

caps_count(text) == Cardinality({i \in 1..Len(text) : isupper(Ch(text, i))})

suspicious_count(text_lower) == CountIn(SUSPICIOUS_KEYWORDS, text_lower)

\* spam_pattern_hits without re.IGNORECASE
spam_pattern_hits_cased(text) ==
    {k \in 1..Len(SPAM_PATTERNS) : search(SPAM_PATTERNS[k].re, text)}

spam_pattern_hits(text) ==
    {k \in 1..Len(SPAM_PATTERNS) : search_ignorecase(SPAM_PATTERNS[k].re, text)}

\* _check_spam that needs more than three keywords
_check_spam_four(text, text_lower) ==
    LET hits == spam_pattern_hits(text)
    IN  IF hits # {}
        THEN LET first == CHOOSE k \in hits : \A j \in hits : k <= j
             IN  AnalysisResult(TRUE, "spam", 95,
                     "Detected spam pattern: " \o SPAM_PATTERNS[first].src,
                     TRUE, FALSE, FALSE, TRUE)
        ELSE IF suspicious_count(text_lower) > 3
        THEN AnalysisResult(TRUE, "spam", 80,
                 "Multiple suspicious keywords detected ("
                     \o str(suspicious_count(text_lower)) \o ")",
                 TRUE, FALSE, TRUE, FALSE)
        ELSE IF Len(text) > 20 /\ 10 * caps_count(text) > 7 * Len(text)
        THEN AnalysisResult(TRUE, "spam", 60,
                 "Excessive use of capital letters",
                 FALSE, TRUE, FALSE, FALSE)
        ELSE None

_check_spam(text, text_lower) ==
    LET hits == spam_pattern_hits(text)
    IN  IF hits # {}
        THEN LET first == CHOOSE k \in hits : \A j \in hits : k <= j
             IN  AnalysisResult(TRUE, "spam", 95,
                     "Detected spam pattern: " \o SPAM_PATTERNS[first].src,
                     TRUE, FALSE, FALSE, TRUE)
        ELSE IF suspicious_count(text_lower) >= 3
        THEN AnalysisResult(TRUE, "spam", 80,
                 "Multiple suspicious keywords detected ("
                     \o str(suspicious_count(text_lower)) \o ")",
                 TRUE, FALSE, TRUE, FALSE)
        \* caps_ratio > 0.7  with  caps_ratio = caps / len
        ELSE IF Len(text) > 20 /\ 10 * caps_count(text) > 7 * Len(text)
        THEN AnalysisResult(TRUE, "spam", 60,
                 "Excessive use of capital letters",
                 FALSE, TRUE, FALSE, FALSE)
        ELSE None

\* also: "люблю", "лучший", "круто", "спасибо", "класс", "супер", "отлично",
\* "помог", "работает", "установил"
positive_indicators == <<
    "love", "best", "great", "awesome", "amazing", "thank", "thanks",
    "helpful", "cool", "nice", "good", "perfect", "excellent",
    "better", "life", "installed", "works", "working", "helped">>

\* also: "ты не знаешь", "ты не прав", "на самом деле", "лучше", "попробуй"
defending_patterns == <<
    "you dont know", "you don't know",
    "you're wrong", "you are wrong",
    "actually",
    "better",
    "try it">>

Insults1 == <<"idiot", "stupid", "dumb", "moron", "loser", "suck">>
Insults2 == <<"idiot", "stupid", "dumb", "moron", "loser", "fuck", "shit",
              "ass", "bitch", "bastard", "damn">>
Spaces == Star(Cls(SpaceChars))

\* also: \bты.{0,10}(идиот|тупой|дурак|лох)  and  \b(иди|пошел)\s*(нахуй|в жопу)
directed_patterns == <<
    Cat(<<WordB, Lit("you"), Rep(Dot, 0, 10), Words(Insults1)>>),
    Cat(<<WordB, Words(<<"fuck", "screw">>), Spaces, Words(<<"you", "off">>), WordB>>),
    Cat(<<WordB, Lit("shut"), Spaces, Lit("up"), WordB>>),
    Cat(<<WordB, Lit("you"), Rep(Dot, 0, 10), Lit("bitch"), WordB>>),
    Cat(<<WordB, Lit("p"), Plus(Lit("e")), Star(Lit("a")), Lit("ce"), Spaces,
          Lit("of"), Spaces, Words(<<"bitch", "shit", "crap">>), WordB>>),
    Cat(<<WordB, Lit("piece"), Spaces, Lit("of"), Spaces,
          Words(<<"bitch", "shit", "crap">>), WordB>>),
    Cat(<<WordB, Lit("son"), Spaces, Lit("of"), Spaces, Opt(Lit("a")), Spaces,
          Lit("bitch"), WordB>>) >>

\* also: \b(идиот|тупой|дурак|лох|блять|сука|хуй|пиздец|ебать|нахуй)\b
offensive_patterns == <<
    Cat(<<WordB, Words(Insults2), WordB>>),
    Cat(<<WordB, Lit("fuck"), Spaces, Opt(Words(<<"you", "off", "this">>)), WordB>>),
    Cat(<<WordB, Lit("shut"), Spaces, Lit("up"), WordB>>),
    Cat(<<WordB, Lit("piece"), Spaces, Lit("of"), Spaces,
          Words(<<"shit", "crap", "garbage">>), WordB>>),
    Cat(<<WordB, Lit("p"), Plus(Lit("e")), Star(Lit("a")), Lit("ce"), Spaces,
          Lit("of"), Spaces, Words(<<"bitch", "shit">>), WordB>>),
    Cat(<<WordB, Lit("son"), Spaces, Lit("of"), Spaces, Opt(Lit("a")), Spaces,
          Words(<<"bitch", "whore">>), WordB>>),
    Cat(<<WordB,
          Alt(<<Cat(<<Plus(Lit("f")), Plus(Lit("u")), Plus(Lit("c")), Plus(Lit("k"))>>),
                Cat(<<Lit("s"), Plus(Lit("h")), Plus(Lit("i")), Plus(Lit("t"))>>),
                Cat(<<Plus(Lit("b")), Plus(Lit("i")), Plus(Lit("t")), Plus(Lit("c")),
                      Plus(Lit("h"))>>)>>),
          WordB>>),
    Cat(<<Lit("you"), Rep(Dot, 0, 5), Words(<<"suck", "stink", "smell">>), WordB>>) >>

has_positive(text_lower) == AnyIn(positive_indicators, text_lower)

\* also: "это приложение", "этот апп"
this_app_context(text_lower) == In("this app", text_lower) \/ In("the app", text_lower)

\* also: "другое приложение"
mentions_other(text_lower) == In("other app", text_lower) \/ In("another app", text_lower)

\* has_relay without the "other app" reset
has_relay_unreset(text_lower) == In("relay", text_lower) \/ this_app_context(text_lower)

\* has_relay that wants the product name itself
has_relay_name_only(text_lower) ==
    IF mentions_other(text_lower) THEN FALSE
    ELSE In("relay", text_lower)

\* has_relay that is reset by "another app" only
has_relay_reset_on_another(text_lower) ==
    IF In("another app", text_lower) THEN FALSE
    ELSE In("relay", text_lower) \/ this_app_context(text_lower)

\* has_relay and is_defending after the "other app" reset
has_relay(text_lower) ==
    IF mentions_other(text_lower) THEN FALSE
    ELSE In("relay", text_lower) \/ this_app_context(text_lower)

is_defending(text_lower) ==
    IF mentions_other(text_lower) THEN FALSE
    ELSE AnyIn(defending_patterns, text_lower)

matches_directed(text_lower) ==
    \E k \in 1..Len(directed_patterns) : search_ignorecase(directed_patterns[k], text_lower)

matches_offensive(text_lower) ==
    \E k \in 1..Len(offensive_patterns) : search_ignorecase(offensive_patterns[k], text_lower)

_check_harassment(text_lower) ==
    IF (has_positive(text_lower) \/ is_defending(text_lower))
       /\ has_relay(text_lower) /\ ~mentions_other(text_lower)
    THEN None
    ELSE IF has_positive(text_lower) /\ has_relay(text_lower)
    THEN None
    ELSE IF matches_directed(text_lower)
    THEN IF has_relay(text_lower) /\ (has_positive(text_lower) \/ is_defending(text_lower))
         THEN None
         ELSE AnalysisResult(TRUE, "harassment", 90,
                  "Directed insult or harassment detected",
                  TRUE, TRUE, FALSE, FALSE)
    ELSE IF matches_offensive(text_lower) /\ Len(text_lower) < 30 /\ ~has_relay(text_lower)
    THEN AnalysisResult(TRUE, "harassment", 60,
             "Potentially offensive language",
             FALSE, TRUE, FALSE, FALSE)
    ELSE None

\* https?://[^\s]+
url_pattern == Cat(<<Lit("http"), Opt(Lit("s")), Lit("://"), Plus(NotCls(SpaceChars))>>)

allowed_domains == <<"relay", "github.com/sunopiusme", "brew.sh",
                     "apple.com", "developer.apple.com", "t.me/relay">>

is_allowed(url) == AnyIn(allowed_domains, lower(url))

\* _check_external_links that allows fewer than MAX_LINKS_PER_MESSAGE links
_check_external_links_fewer(text) ==
    LET urls == findall(url_pattern, text)
        bad  == {k \in 1..Len(urls) : ~is_allowed(urls[k]) /\ ~In("t.me", urls[k])}
    IN  IF Len(urls) >= MAX_LINKS_PER_MESSAGE
        THEN AnalysisResult(TRUE, "external_links", 70,
                 "Too many links (" \o str(Len(urls)) \o ")",
                 TRUE, TRUE, FALSE, FALSE)
        ELSE IF bad # {}
        THEN LET url == urls[CHOOSE k \in bad : \A j \in bad : k <= j]
             IN  AnalysisResult(TRUE, "external_links", 50,
                     "External link detected: "
                         \o SubSeq(url, 1, IF Len(url) < 50 THEN Len(url) ELSE 50) \o "...",
                     FALSE, TRUE, FALSE, FALSE)
        ELSE None

_check_external_links(text) ==
    LET suspicious(url) == ~is_allowed(url) /\ ~In("t.me", url)
        detected(url) ==
            AnalysisResult(TRUE, "external_links", 50,
                "External link detected: "
                    \o SubSeq(url, 1, IF Len(url) < 50 THEN Len(url) ELSE 50) \o "...",
                FALSE, TRUE, FALSE, FALSE)
        check(urls) ==
            IF Len(urls) > MAX_LINKS_PER_MESSAGE
            THEN AnalysisResult(TRUE, "external_links", 70,
                     "Too many links (" \o str(Len(urls)) \o ")",
                     TRUE, TRUE, FALSE, FALSE)
            ELSE IF \E k \in 1..Len(urls) : suspicious(urls[k])
            THEN detected(urls[CHOOSE k \in 1..Len(urls) :
                                  /\ suspicious(urls[k])
                                  /\ \A j \in 1..(k - 1) : ~suspicious(urls[j])])
            ELSE None
    IN  check(findall(url_pattern, text))

relay_keyword_count(text_lower) == CountIn(RELAY_KEYWORDS, text_lower)

\* _check_off_topic that flags a message of exactly 100 characters
_check_off_topic_from_100(text_lower) ==
    IF Len(text_lower) < 30 THEN None
    ELSE IF relay_keyword_count(text_lower) = 0 /\ Len(text_lower) >= 100
    THEN AnalysisResult(TRUE, "off_topic", 30,
             "Message may be off-topic (no Relay-related keywords)",
             FALSE, FALSE, FALSE, FALSE)
    ELSE None

_check_off_topic(text_lower) ==
    IF Len(text_lower) < 30 THEN None
    ELSE IF relay_keyword_count(text_lower) = 0 /\ Len(text_lower) > 100
    THEN AnalysisResult(TRUE, "off_topic", 30,
             "Message may be off-topic (no Relay-related keywords)",
             FALSE, FALSE, FALSE, FALSE)
    ELSE None

(***************************************************************************)
(* The messages the model sends                                            *)
(***************************************************************************)
\* s * n
RECURSIVE Repeat(_, _)
Repeat(s, n) ==
    IF n = 0 THEN ""
    ELSE IF n = 1 THEN s
    ELSE Repeat(s, n \div 2) \o Repeat(s, n - (n \div 2))

\* neutral text of exactly n characters
Filler(n) == SubSeq(Repeat("lorem ipsum dolor sit amet ", (n \div 27) + 1), 1, n)

\* the off-topic length threshold and the caps length threshold sit between
\* the lengths used below
LongLen == 150

SpamTexts == {
    "join t.me/cryptopump",
    "crypto invest free bitcoin bit.ly/x",
    "HELLO @SPAMBOT " \o Repeat("A", 16),
    "you idiot join t.me/pump",
    "crypto invest earn money",
    "earn money invest crypto",
    "crypto crypto invest click here crypto",
    "CRYPTO INVEST EARN MONEY NOW!!",
    Repeat("A", 21) }

HarassmentTexts == {
    "you are such an idiot",
    "you idiot",
    "shut up",
    "what a damn mess",
    "you stupid, try another app, relay is great",
    "shut up and use the other app, i love relay",
    "you idiot http://example.com/x",
    "you idiot " \o Filler(LongLen - 10) }

DefenderTexts == {
    "I love Relay, this app is the best!!",
    "shut up, relay is the best",
    "actually relay rocks, you idiot",
    "this app is great you idiot",
    "damn relay is good" }

LinkTexts == {
    "http://relay.app/a http://brew.sh/b http://apple.com/c",
    "look http://example.com/x",
    "http://relay.app/a http://example.com/x",
    "look http://example.com/x " \o Filler(LongLen - 26) }

OffTopicTexts == { Filler(101), Filler(LongLen) }

CleanTexts == {
    "",
    "hello there",
    "see t.me/relay_chat",
    "crypto crypto crypto invest",
    Repeat("A", 20),
    "damn, my relay build broke",
    "well damn that was a long day at work",
    "http://relay.app/a http://brew.sh/b",
    "see http://t.me",
    Filler(100),
    "app " \o Filler(LongLen - 4) }

Texts == SpamTexts \cup HarassmentTexts \cup DefenderTexts \cup LinkTexts
            \cup OffTopicTexts \cup CleanTexts

\* a small cross-section of Texts for the runs that are long enough to flood
FloodTexts == {
    "",
    "you idiot join t.me/pump",
    "you idiot http://example.com/x",
    "look http://example.com/x " \o Filler(LongLen - 26),
    Filler(101) }

\* the messages of the runs about reputation
PlusRepTexts == {
    "+rep",
    "Thanks + REP",
    "+rep you idiot join t.me/pump http://example.com/x" }
PraiseTexts == { "i love relay" }
RepTexts == PlusRepTexts \cup PraiseTexts

\* the messages of the runs about enforcement: clean, off-topic, one link,
\* upper-case, a directed insult
MessageTexts == {
    "hello there",
    Filler(101),
    "look http://example.com/x",
    Repeat("A", 21),
    "you idiot" }

\* the reported messages of the runs about the report queue
ReportedTexts == { "", "join t.me/cryptopump" }

\* the reported messages of the run that floods tracker id 0
FloodReportTexts ==
    ReportedTexts \cup { "http://relay.app/a http://brew.sh/b http://apple.com/c" }

\* the reasons reporters give
Reasons == {
    "this is spam advertising",
    "he insulted me with spam",
    "off-topic chatter",
    "please look at this",
    "unrelated promo",
    "Rude and off-topic",
    "offensive spam, unrelated",
    "bad behaviour" }

FloodReasons == { "this is spam advertising" }

\* the reasons of the runs about the report queue; the first is the one
\* cmd_report uses when the command has no argument
QueueReasons == { "No reason provided", "this is spam advertising" }

\* the checks that depend on the text alone, evaluated once per message:
\* the pairs <<text, results of the four checks on it>>
TextChecks ==
    {<<t, [spam           |-> _check_spam(t, lower(t)),
           harassment     |-> _check_harassment(lower(t)),
           external_links |-> _check_external_links(t),
           off_topic      |-> _check_off_topic(lower(t))]>> : t \in Texts \cup FloodTexts \cup RepTexts}

ChecksOf(text) == (CHOOSE p \in TextChecks : p[1] = text)[2]

(***************************************************************************)
(* State                                                                   *)
(***************************************************************************)
VARIABLES
    user_message_times,  \* MessageAnalyzer.user_message_times: sender id -> list of times
    now,                 \* the clock read by datetime.now()
    last,                \* the latest classifier call and the verdict it returned
    scenario,            \* the kind of run: which messages occur and who may flood
    violations,          \* violations.json: data["users"], user id -> record
    reports,             \* reports.json: data["reports"], the list of reports
    reputation,          \* reputation.json: data["users"], user id -> record
    rep_cooldowns,       \* relay_guard_bot.rep_cooldowns: giver -> receiver -> time
    pending_captcha,     \* relay_guard_bot.pending_captcha: user id -> entry
    handled,             \* the latest update the bot handled and the calls it made
    tasks                \* the handler coroutines that are pending, in order of arrival

\* the state of the bot around the analyzer
bot_vars == <<violations, reports, reputation, rep_cooldowns, pending_captcha, handled>>

vars == <<user_message_times, now, last, scenario, violations, reports, reputation,
          rep_cooldowns, pending_captcha, handled, tasks>>

\* chat members that send messages; analyze_report classifies under id 0
Senders == {1, 2}
REPORT_USER_ID == 0

\* timedelta(minutes=1), in seconds
WINDOW_SECONDS == 60

TickSteps == {30}
MaxNow == 60
\* how many timestamps a sender's history may hold, and how many the history
\* of the sender that floods may hold
MaxHistory == 1
MaxFloodHistory == 12
\* how many violations a user's record may hold, how many reports the queue,
\* how many events a user's reputation history
MaxViolations == 5
MaxReports == 2
\* how many reports the queue may hold in the run that floods tracker id 0
MaxFloodReports == 12
MaxRepEvents == 3
\* the clock of the runs about the captcha and about +rep, and its steps
MaxCaptchaNow == 240
CaptchaTick == 60
MaxRepNow == 5400
RepTick == 1800
\* how many handler coroutines may be pending at once
MaxPending == 2

(***************************************************************************)
(* analyzer.py: the rate tracker and the two entry points                  *)
(***************************************************************************)
\* prune that keeps an entry that is exactly one minute old
prune_keeps_minute_old(times, t_now) ==
    LET recent(t) == t_now - t <= WINDOW_SECONDS
    IN  SelectSeq(times, recent)

\* prune that keeps every entry
prune_nothing(times, t_now) == times

\* the "clean old entries" comprehension
prune(times, t_now) ==
    LET recent(t) == t_now - t < WINDOW_SECONDS
    IN  SelectSeq(times, recent)

\* user_message_times[user_id] after "if user_id not in ...: ... = []"
history(umt, user_id) == IF user_id \in DOMAIN umt THEN umt[user_id] ELSE <<>>

\* _check_flood that fires when the cap is reached
_check_flood_at_cap(umt, t_now, user_id) ==
    LET times  == Append(prune(history(umt, user_id), t_now), t_now)
        umt2   == [u \in DOMAIN umt \cup {user_id} |-> IF u = user_id THEN times ELSE umt[u]]
    IN  [result |-> IF Len(times) >= MAX_MESSAGES_PER_MINUTE
                    THEN AnalysisResult(TRUE, "flood", 90,
                             "Sending too many messages (" \o str(Len(times)) \o "/min)",
                             FALSE, FALSE, TRUE, FALSE)
                    ELSE None,
         umt |-> umt2]

\* _check_flood that keeps the history of the calling sender only
_check_flood_forgets_others(umt, t_now, user_id) ==
    LET times  == Append(prune(history(umt, user_id), t_now), t_now)
        umt2   == [u \in {user_id} |-> times]
    IN  [result |-> IF Len(times) > MAX_MESSAGES_PER_MINUTE
                    THEN AnalysisResult(TRUE, "flood", 90,
                             "Sending too many messages (" \o str(Len(times)) \o "/min)",
                             FALSE, FALSE, TRUE, FALSE)
                    ELSE None,
         umt |-> umt2]

\* _check_flood whose write loses the entries recorded at the same instant
_check_flood_lost_update(umt, t_now, user_id) ==
    LET earlier(t) == t # t_now
        times  == Append(SelectSeq(prune(history(umt, user_id), t_now), earlier), t_now)
        umt2   == [u \in DOMAIN umt \cup {user_id} |-> IF u = user_id THEN times ELSE umt[u]]
    IN  [result |-> IF Len(times) > MAX_MESSAGES_PER_MINUTE
                    THEN AnalysisResult(TRUE, "flood", 90,
                             "Sending too many messages (" \o str(Len(times)) \o "/min)",
                             FALSE, FALSE, TRUE, FALSE)
                    ELSE None,
         umt |-> umt2]

\* _check_flood that tolerates one message more
_check_flood_above_eleven(umt, t_now, user_id) ==
    LET times  == Append(prune(history(umt, user_id), t_now), t_now)
        umt2   == [u \in DOMAIN umt \cup {user_id} |-> IF u = user_id THEN times ELSE umt[u]]
    IN  [result |-> IF Len(times) > MAX_MESSAGES_PER_MINUTE + 1
                    THEN AnalysisResult(TRUE, "flood", 90,
                             "Sending too many messages (" \o str(Len(times)) \o "/min)",
                             FALSE, FALSE, TRUE, FALSE)
                    ELSE None,
         umt |-> umt2]

\* _check_flood that records the message only when it returns None
_check_flood_unrecorded(umt, t_now, user_id) ==
    LET times  == Append(prune(history(umt, user_id), t_now), t_now)
        umt2   == [u \in DOMAIN umt \cup {user_id} |-> IF u = user_id THEN times ELSE umt[u]]
    IN  IF Len(times) > MAX_MESSAGES_PER_MINUTE
        THEN [result |-> AnalysisResult(TRUE, "flood", 90,
                             "Sending too many messages (" \o str(Len(times)) \o "/min)",
                             FALSE, FALSE, TRUE, FALSE),
              umt |-> umt]
        ELSE [result |-> None, umt |-> umt2]

\* returns the verdict (or None) and the updated user_message_times
_check_flood(umt, t_now, user_id) ==
    LET times  == Append(prune(history(umt, user_id), t_now), t_now)
        umt2   == [u \in DOMAIN umt \cup {user_id} |-> IF u = user_id THEN times ELSE umt[u]]
    IN  [result |-> IF Len(times) > MAX_MESSAGES_PER_MINUTE
                    THEN AnalysisResult(TRUE, "flood", 90,
                             "Sending too many messages (" \o str(Len(times)) \o "/min)",
                             FALSE, FALSE, TRUE, FALSE)
                    ELSE None,
         umt |-> umt2]

CleanResult ==
    AnalysisResult(FALSE, NoType, 0, "Message appears to follow community rules",
                   FALSE, FALSE, FALSE, FALSE)

\* analyze that checks for harassment before flooding
analyze_harassment_first(umt, t_now, text, user_id) ==
    LET c     == ChecksOf(text)
        flood == _check_flood(umt, t_now, user_id)
    IN  IF c.spam # None THEN [result |-> c.spam, umt |-> umt]
        ELSE IF c.harassment # None THEN [result |-> c.harassment, umt |-> umt]
        ELSE IF flood.result # None THEN flood
        ELSE IF c.external_links # None THEN [result |-> c.external_links, umt |-> flood.umt]
        ELSE IF c.off_topic # None THEN [result |-> c.off_topic, umt |-> flood.umt]
        ELSE [result |-> CleanResult, umt |-> flood.umt]

\* analyze that runs the flood check before it returns the spam verdict
analyze_spam_recorded(umt, t_now, text, user_id) ==
    LET first(c, flood) ==
            IF c.spam # None THEN [result |-> c.spam, umt |-> flood.umt]
            ELSE IF flood.result # None THEN flood
            ELSE IF c.harassment # None THEN [result |-> c.harassment, umt |-> flood.umt]
            ELSE IF c.external_links # None THEN [result |-> c.external_links, umt |-> flood.umt]
            ELSE IF c.off_topic # None THEN [result |-> c.off_topic, umt |-> flood.umt]
            ELSE [result |-> CleanResult, umt |-> flood.umt]
    IN  first(ChecksOf(text), _check_flood(umt, t_now, user_id))

\* returns the verdict and the updated user_message_times; the flood check
\* (and its update) runs only when the spam check returns None
analyze(umt, t_now, text, user_id) ==
    LET first(c, flood) ==
            IF c.spam # None THEN [result |-> c.spam, umt |-> umt]
            ELSE IF flood.result # None THEN flood
            ELSE IF c.harassment # None THEN [result |-> c.harassment, umt |-> flood.umt]
            ELSE IF c.external_links # None THEN [result |-> c.external_links, umt |-> flood.umt]
            ELSE IF c.off_topic # None THEN [result |-> c.off_topic, umt |-> flood.umt]
            ELSE [result |-> CleanResult, umt |-> flood.umt]
    IN  first(ChecksOf(text), _check_flood(umt, t_now, user_id))

\* also: "оскорб", "грубо", "хамство", "атака"
harassment_keywords == <<"harass", "insult", "rude", "offensive", "attack">>
\* also: "спам", "реклама"
spam_keywords == <<"spam", "ad", "promo", "scam">>
\* also: "не по теме", "оффтоп"
offtopic_keywords == <<"off-topic", "unrelated">>

\* the needs-review verdict with a warn recommendation
NeedsReviewResult_warning ==
    AnalysisResult(FALSE, NoType, 0, "Report requires admin review",
                   FALSE, TRUE, FALSE, FALSE)

NeedsReviewResult ==
    AnalysisResult(FALSE, NoType, 0, "Report requires admin review",
                   FALSE, FALSE, FALSE, FALSE)

\* reason_result that looks for spam keywords before harassment keywords
reason_result_spam_first(reporter_reason) ==
    LET reason_lower == lower(reporter_reason)
    IN  IF AnyIn(spam_keywords, reason_lower)
        THEN AnalysisResult(TRUE, "spam", 60,
                 "Reported as spam: " \o reporter_reason,
                 TRUE, FALSE, TRUE, FALSE)
        ELSE IF AnyIn(harassment_keywords, reason_lower)
        THEN AnalysisResult(TRUE, "harassment", 60,
                 "Reported for harassment: " \o reporter_reason,
                 FALSE, TRUE, FALSE, FALSE)
        ELSE IF AnyIn(offtopic_keywords, reason_lower)
        THEN AnalysisResult(TRUE, "off_topic", 50,
                 "Reported as off-topic: " \o reporter_reason,
                 FALSE, TRUE, FALSE, FALSE)
        ELSE NeedsReviewResult

\* the verdict analyze_report derives from the reporter's reason
reason_result(reporter_reason) ==
    LET reason_lower == lower(reporter_reason)
    IN  IF AnyIn(harassment_keywords, reason_lower)
        THEN AnalysisResult(TRUE, "harassment", 60,
                 "Reported for harassment: " \o reporter_reason,
                 FALSE, TRUE, FALSE, FALSE)
        ELSE IF AnyIn(spam_keywords, reason_lower)
        THEN AnalysisResult(TRUE, "spam", 60,
                 "Reported as spam: " \o reporter_reason,
                 TRUE, FALSE, TRUE, FALSE)
        ELSE IF AnyIn(offtopic_keywords, reason_lower)
        THEN AnalysisResult(TRUE, "off_topic", 50,
                 "Reported as off-topic: " \o reporter_reason,
                 FALSE, TRUE, FALSE, FALSE)
        ELSE NeedsReviewResult

\* reason_result, evaluated once per reason: the pairs <<reason, verdict>>
ReasonResults == {<<r, reason_result(r)>> : r \in Reasons \cup FloodReasons \cup QueueReasons}

ResultOfReason(reporter_reason) == (CHOOSE p \in ReasonResults : p[1] = reporter_reason)[2]

\* analyze_report that also returns a primary verdict of exactly 0.7
analyze_report_from_70(umt, t_now, reported_text, reporter_reason) ==
    LET verdict(std) ==
            IF std.result.is_violation /\ std.result.confidence >= 70 THEN std
            ELSE [result |-> ResultOfReason(reporter_reason), umt |-> std.umt]
    IN  verdict(analyze(umt, t_now, reported_text, REPORT_USER_ID))

analyze_report(umt, t_now, reported_text, reporter_reason) ==
    LET verdict(std) ==
            IF std.result.is_violation /\ std.result.confidence > 70 THEN std
            ELSE [result |-> ResultOfReason(reporter_reason), umt |-> std.umt]
    IN  verdict(analyze(umt, t_now, reported_text, REPORT_USER_ID))

(***************************************************************************)
(* config.py: the settings of the bot                                      *)
(***************************************************************************)
\* the source lists one admin, 6394311885
ADMIN_IDS == {3}
TEST_MODE == FALSE
WARN_BEFORE_BAN == 3
CAPTCHA_TIMEOUT_SECONDS == 120
CAPTCHA_KICK_ON_FAIL == TRUE
REP_COOLDOWN_SECONDS == 3600
REP_POINTS_MANUAL == 2

\* accounts with is_bot set, and the accounts that join the chat
Bots == {4}
Joiners == {5, 6}
\* reply_to_message is None
NoReply == 0

(***************************************************************************)
(* violations.py: the violation records and the report queue.  A record    *)
(* keeps the fields the bot reads again: of a Violation its user, type,    *)
(* action and confidence; of a Report everything but names and timestamp.  *)
(***************************************************************************)
Violation(user_id, violation_type, action_taken, confidence) ==
    [user_id |-> user_id, violation_type |-> violation_type,
     action_taken |-> action_taken, confidence |-> confidence]

Report(reporter_id, reported_user_id, reported_message, reason, status) ==
    [reporter_id |-> reporter_id, reported_user_id |-> reported_user_id,
     reported_message |-> reported_message, reason |-> reason,
     status |-> status, admin_notes |-> ""]

\* the entry of a user without violations
NoViolations == [violations |-> <<>>, warnings |-> 0, mutes |-> 0, bans |-> 0]

get_user_violations(data, user_id) ==
    IF user_id \in DOMAIN data THEN data[user_id] ELSE NoViolations

\* returns the updated data["users"]
record_violation(data, violation) ==
    LET count(action) == IF violation.action_taken = action THEN 1 ELSE 0
        updated(user_data) ==
            [violations |-> Append(user_data.violations, violation),
             warnings   |-> user_data.warnings + count("warn"),
             mutes      |-> user_data.mutes + count("mute"),
             bans       |-> user_data.bans + count("ban")]
    IN  [u \in DOMAIN data \cup {violation.user_id} |->
            IF u = violation.user_id
            THEN updated(get_user_violations(data, violation.user_id))
            ELSE data[u]]

\* should_escalate that asks for a ban as soon as the warnings are used up
should_escalate_ban_first(data, user_id) ==
    LET escalate(user_data) ==
            IF user_data.warnings >= WARN_BEFORE_BAN
            THEN <<TRUE, "ban">>
            ELSE <<FALSE, "warn">>
    IN  escalate(get_user_violations(data, user_id))

\* returns <<should_escalate, recommended_action>>
should_escalate(data, user_id) ==
    LET escalate(user_data) ==
            IF user_data.warnings >= WARN_BEFORE_BAN
            THEN IF user_data.mutes = 0 THEN <<TRUE, "mute">> ELSE <<TRUE, "ban">>
            ELSE <<FALSE, "warn">>
    IN  escalate(get_user_violations(data, user_id))

\* returns the updated data["reports"]; the new report's id is its length
record_report(data, report) ==
    Append(data, [id |-> Len(data) + 1,
                  reporter_id |-> report.reporter_id,
                  reported_user_id |-> report.reported_user_id,
                  reported_message |-> report.reported_message,
                  reason |-> report.reason,
                  status |-> report.status,
                  admin_notes |-> report.admin_notes])

get_pending_reports(data) ==
    LET pending(r) == r.status = "pending"
    IN  SelectSeq(data, pending)

\* update_report_status that does not compare the id
update_report_status_any_id(data, report_id, status, admin_notes) ==
    [i \in 1..Len(data) |-> [data[i] EXCEPT !.status = status, !.admin_notes = admin_notes]]

\* the first report with this id gets the status and the notes
update_report_status(data, report_id, status, admin_notes) ==
    LET update(hits) ==
            IF hits = {} THEN data
            ELSE [data EXCEPT ![CHOOSE i \in hits : \A j \in hits : i <= j] =
                                  [@ EXCEPT !.status = status, !.admin_notes = admin_notes]]
    IN  update({i \in 1..Len(data) : data[i].id = report_id})

(***************************************************************************)
(* reputation.py                                                           *)
(***************************************************************************)
REP_POSITIVE_FEEDBACK == 1
\* "Keep only last 50 events"
REP_HISTORY_LENGTH == 50

\* the entry add_rep creates for a user it does not know
NoRep == [total_rep |-> 0, history |-> <<>>, badges |-> <<>>]

RepEvent(event_type, points) == [event_type |-> event_type, points |-> points]

\* the badges after _check_badges; the names stand without their emoji
_check_badges(badges, total, events) ==
    LET count(event_type) ==
            Cardinality({i \in 1..Len(events) : events[i].event_type = event_type})
        has(bs, badge) == \E i \in 1..Len(bs) : bs[i] = badge
        award(bs, earned, badge) ==
            IF earned /\ ~has(bs, badge) THEN Append(bs, badge) ELSE bs
    IN  award(award(award(award(award(badges,
            count("defend") >= 3, "Defender"),
            count("defend") >= 10, "Champion"),
            total >= 50, "Trusted"),
            total >= 100, "Legend"),
            count("helpful") >= 5, "Helper")

\* returns the updated data["users"]
add_rep(data, user_id, points, event_type) ==
    LET last50(h) ==
            IF Len(h) > REP_HISTORY_LENGTH
            THEN SubSeq(h, Len(h) - REP_HISTORY_LENGTH + 1, Len(h))
            ELSE h
        updated(user, total, events) ==
            [total_rep |-> total, history |-> events,
             badges |-> _check_badges(user.badges, total, events)]
        add(user) ==
            updated(user, user.total_rep + points,
                    last50(Append(user.history, RepEvent(event_type, points))))
    IN  [u \in DOMAIN data \cup {user_id} |->
            IF u = user_id
            THEN add(IF user_id \in DOMAIN data THEN data[user_id] ELSE NoRep)
            ELSE data[u]]

rep_positive(data, user_id) == add_rep(data, user_id, REP_POSITIVE_FEEDBACK, "positive")

total_rep(data, user_id) == IF user_id \in DOMAIN data THEN data[user_id].total_rep ELSE 0

(***************************************************************************)
(* relay_guard_bot.py: the moderation actions and the +rep system.         *)
(* A handler's calls are listed by the name of the function or of the      *)
(* Telegram method; what Telegram answers is not part of the model.        *)
(***************************************************************************)
\* take_action without a violation to act on
\* handle_message that already acts on a confidence of one half
ACT_CONFIDENCE_half == 100 \div 2

\* "Only act on high-confidence violations": result.confidence >= 0.6
ACT_CONFIDENCE == 60

NoAction(data) == [calls |-> <<>>, action_taken |-> "none", violations |-> data]

\* take_action that prefers the mute to the ban
take_action_mute_first(data, result, user_id) ==
    LET decide(esc) ==
            IF result.should_mute \/ (esc[1] /\ esc[2] = "mute") THEN "mute"
            ELSE IF result.should_ban \/ (esc[1] /\ esc[2] = "ban") THEN "ban"
            ELSE IF result.should_warn THEN "warn"
            ELSE "none"
        done(action_taken) ==
            [calls |-> (IF result.should_delete THEN <<"delete_message">> ELSE <<>>)
                          \o (IF action_taken = "none" THEN <<>>
                              ELSE <<action_taken \o "_user">>),
             action_taken |-> action_taken,
             violations |->
                 IF action_taken # "none"
                 THEN record_violation(data,
                          Violation(user_id,
                                    IF result.violation_type = NoType THEN "unknown"
                                    ELSE result.violation_type,
                                    action_taken, result.confidence))
                 ELSE data]
    IN  IF TEST_MODE
        THEN [calls |-> <<"send_message">>, action_taken |-> "none", violations |-> data]
        ELSE done(decide(should_escalate(data, user_id)))

\* returns the calls made, the action taken and the updated violations
take_action(data, result, user_id) ==
    LET decide(esc) ==
            IF result.should_ban \/ (esc[1] /\ esc[2] = "ban") THEN "ban"
            ELSE IF result.should_mute \/ (esc[1] /\ esc[2] = "mute") THEN "mute"
            ELSE IF result.should_warn THEN "warn"
            ELSE "none"
        done(action_taken) ==
            [calls |-> (IF result.should_delete THEN <<"delete_message">> ELSE <<>>)
                          \o (IF action_taken = "none" THEN <<>>
                              ELSE <<action_taken \o "_user">>),
             action_taken |-> action_taken,
             violations |->
                 IF action_taken # "none"
                 THEN record_violation(data,
                          Violation(user_id,
                                    IF result.violation_type = NoType THEN "unknown"
                                    ELSE result.violation_type,
                                    action_taken, result.confidence))
                 ELSE data]
    IN  IF TEST_MODE
        THEN [calls |-> <<"send_message">>, action_taken |-> "none", violations |-> data]
        ELSE done(decide(should_escalate(data, user_id)))

\* also: "люблю", "лучший", "круто", "супер", "отлично"
positive_words == <<"love", "best", "great", "awesome", "amazing", "perfect", "excellent">>

\* what handle_plus_rep and handle_message look for in a text, evaluated
\* once per message: the pairs <<text, triggers>>
TextTriggers ==
    {<<t, [plus_rep |-> In("+rep", lower(t)) \/ In("+ rep", lower(t)),
           praise   |-> In("relay", lower(t)) /\ AnyIn(positive_words, lower(t))]>> :
        t \in Texts \cup FloodTexts \cup RepTexts}

TriggersOf(text) == (CHOOSE p \in TextTriggers : p[1] = text)[2]

\* rep_cooldowns.get(giver, {})
giver_cooldowns(cooldowns, giver) ==
    IF giver \in DOMAIN cooldowns THEN cooldowns[giver] ELSE <<>>

\* handle_plus_rep that looks up the cooldown the receiver has for the giver
handle_plus_rep_swapped(cooldowns, rep, t_now, text, giver, receiver) ==
    LET done(is_plus_rep, calls, rep2, cooldowns2) ==
            [is_plus_rep |-> is_plus_rep, calls |-> calls,
             reputation |-> rep2, rep_cooldowns |-> cooldowns2]
        stored(mine) ==
            [g \in DOMAIN cooldowns \cup {giver} |->
                IF g = giver
                THEN [r \in DOMAIN mine \cup {receiver} |->
                         IF r = receiver THEN t_now ELSE mine[r]]
                ELSE cooldowns[g]]
        recent(theirs) ==
            giver \in DOMAIN theirs /\ t_now - theirs[giver] < REP_COOLDOWN_SECONDS
    IN  IF ~TriggersOf(text).plus_rep THEN done(FALSE, <<>>, rep, cooldowns)
        ELSE IF receiver = NoReply THEN done(TRUE, <<"reply_text">>, rep, cooldowns)
        ELSE IF giver = receiver THEN done(TRUE, <<"reply_text">>, rep, cooldowns)
        ELSE IF receiver \in Bots THEN done(TRUE, <<"reply_text">>, rep, cooldowns)
        ELSE IF recent(giver_cooldowns(cooldowns, receiver))
        THEN done(TRUE, <<"reply_text">>, rep, cooldowns)
        ELSE done(TRUE, <<"add_rep", "reply_text">>,
                  add_rep(rep, receiver, REP_POINTS_MANUAL, "manual_rep"),
                  stored(giver_cooldowns(cooldowns, giver)))

\* returns whether the message was a +rep message, the calls made, and the
\* updated reputation data and rep_cooldowns
\* handle_plus_rep that takes a +rep outside a reply for a plain message
handle_plus_rep_reply_only(cooldowns, rep, t_now, text, giver, receiver) ==
    LET done(is_plus_rep, calls, rep2, cooldowns2) ==
            [is_plus_rep |-> is_plus_rep, calls |-> calls,
             reputation |-> rep2, rep_cooldowns |-> cooldowns2]
        stored(mine) ==
            [g \in DOMAIN cooldowns \cup {giver} |->
                IF g = giver
                THEN [r \in DOMAIN mine \cup {receiver} |->
                         IF r = receiver THEN t_now ELSE mine[r]]
                ELSE cooldowns[g]]
        recent(mine) ==
            receiver \in DOMAIN mine /\ t_now - mine[receiver] < REP_COOLDOWN_SECONDS
    IN  IF ~TriggersOf(text).plus_rep THEN done(FALSE, <<>>, rep, cooldowns)
        ELSE IF receiver = NoReply THEN done(FALSE, <<>>, rep, cooldowns)
        ELSE IF giver = receiver THEN done(TRUE, <<"reply_text">>, rep, cooldowns)
        ELSE IF receiver \in Bots THEN done(TRUE, <<"reply_text">>, rep, cooldowns)
        ELSE IF recent(giver_cooldowns(cooldowns, giver))
        THEN done(TRUE, <<"reply_text">>, rep, cooldowns)
        ELSE done(TRUE, <<"add_rep", "reply_text">>,
                  add_rep(rep, receiver, REP_POINTS_MANUAL, "manual_rep"),
                  stored(giver_cooldowns(cooldowns, giver)))

handle_plus_rep(cooldowns, rep, t_now, text, giver, receiver) ==
    LET done(is_plus_rep, calls, rep2, cooldowns2) ==
            [is_plus_rep |-> is_plus_rep, calls |-> calls,
             reputation |-> rep2, rep_cooldowns |-> cooldowns2]
        stored(mine) ==
            [g \in DOMAIN cooldowns \cup {giver} |->
                IF g = giver
                THEN [r \in DOMAIN mine \cup {receiver} |->
                         IF r = receiver THEN t_now ELSE mine[r]]
                ELSE cooldowns[g]]
        recent(mine) ==
            receiver \in DOMAIN mine /\ t_now - mine[receiver] < REP_COOLDOWN_SECONDS
    IN  IF ~TriggersOf(text).plus_rep THEN done(FALSE, <<>>, rep, cooldowns)
        ELSE IF receiver = NoReply THEN done(TRUE, <<"reply_text">>, rep, cooldowns)
        ELSE IF giver = receiver THEN done(TRUE, <<"reply_text">>, rep, cooldowns)
        ELSE IF receiver \in Bots THEN done(TRUE, <<"reply_text">>, rep, cooldowns)
        ELSE IF recent(giver_cooldowns(cooldowns, giver))
        THEN done(TRUE, <<"reply_text">>, rep, cooldowns)
        ELSE done(TRUE, <<"add_rep", "reply_text">>,
                  add_rep(rep, receiver, REP_POINTS_MANUAL, "manual_rep"),
                  stored(giver_cooldowns(cooldowns, giver)))

\* the puzzles: the answer "a" and the options; the options that are not
\* numbers stand without their emoji
WELCOME_PUZZLES == <<
    [q |-> "apple + apple = ?", a |-> 2, options |-> <<1, 2, 3, 4>>],
    [q |-> "How many legs does a cat have?", a |-> 4, options |-> <<2, 3, 4, 6>>],
    [q |-> "Relay is a...", a |-> 1, options |-> <<"App", "Pizza", "Car">>],
    [q |-> "macOS is an...", a |-> 0, options |-> <<"OS", "Browser", "Game">>],
    [q |-> "1 + 2 = ?", a |-> 3, options |-> <<2, 3, 4, 5>>],
    [q |-> "Pick the NOT food:", a |-> 2,
     options |-> <<"burger", "fries", "laptop", "donut">>] >>

\* the 0-based index of the button handle_new_member takes for the right one:
\* every "a" is an int, so it is "a" itself unless "a" is not one of 0..3
correct_idx(puzzle) ==
    IF puzzle.a \notin {0, 1, 2, 3}
    THEN (CHOOSE i \in 1..Len(puzzle.options) : puzzle.options[i] = puzzle.a) - 1
    ELSE puzzle.a

(***************************************************************************)
(* Initial states and steps                                                *)
(***************************************************************************)
NoCall == [op |-> "none", text |-> "", user_id |-> 0, reason |-> "", result |-> None,
           repeated |-> FALSE]

NoUpdate == [handler |-> "none", user_id |-> 0, target |-> 0, text |-> "",
             result |-> None, calls |-> <<>>]

\* the data files do not exist yet and the module's dictionaries are empty
InitBot ==
    /\ violations = <<>>
    /\ reports = <<>>
    /\ reputation = <<>>
    /\ rep_cooldowns = <<>>
    /\ pending_captcha = <<>>
    /\ handled = NoUpdate
    /\ tasks = <<>>

InitAnalyzer ==
    /\ user_message_times = <<>>
    /\ now = 0
    /\ last = NoCall
    /\ InitBot

\* every message, short histories
Init == InitAnalyzer /\ scenario = "texts"

\* few messages, sender 1 may send enough of them to flood
InitFlood == InitAnalyzer /\ scenario = "flood"

\* few messages, enough reports to fill the history of id 0
InitReports == InitAnalyzer /\ scenario = "reports"

messages == IF scenario = "texts" THEN Texts ELSE FloodTexts
reasons == IF scenario = "texts" THEN Reasons ELSE FloodReasons
\* the reported messages: in the flood run reports only fill the history of id 0
reported == IF scenario = "flood" THEN {""} ELSE FloodTexts

HistoryCap(user_id) ==
    IF \/ scenario \in {"flood", "concurrent"} /\ user_id = 1
       \/ scenario \in {"reports", "report_flood"} /\ user_id = REPORT_USER_ID
    THEN MaxFloodHistory
    ELSE IF scenario = "queue" /\ user_id = REPORT_USER_ID
    THEN MaxReports
    ELSE MaxHistory

\* the call leaves room in the sender's history
HasRoom(user_id) ==
    Len(prune(history(user_message_times, user_id), now)) < HistoryCap(user_id)

\* the call repeats the latest one: same entry point, same arguments
SameCall(op, text, user_id, reason) ==
    /\ last.op = op
    /\ last.text = text
    /\ last.user_id = user_id
    /\ last.reason = reason

\* a sender's message reaches analyzer.analyze
Analyze(text, user_id) ==
    /\ HasRoom(user_id)
    /\ LET return(r) ==
               /\ user_message_times' = r.umt
               /\ last' = [op |-> "analyze", text |-> text, user_id |-> user_id,
                           reason |-> "", result |-> r.result,
                           repeated |-> SameCall("analyze", text, user_id, "")]
       IN  return(analyze(user_message_times, now, text, user_id))
    /\ UNCHANGED <<now, scenario, tasks>>
    /\ UNCHANGED bot_vars

\* a reported message reaches analyzer.analyze_report
AnalyzeReport(reported_text, reporter_reason) ==
    /\ HasRoom(REPORT_USER_ID)
    /\ LET return(r) ==
               /\ user_message_times' = r.umt
               /\ last' = [op |-> "analyze_report", text |-> reported_text,
                           user_id |-> REPORT_USER_ID,
                           reason |-> reporter_reason, result |-> r.result,
                           repeated |-> SameCall("analyze_report", reported_text,
                                                 REPORT_USER_ID, reporter_reason)]
       IN  return(analyze_report(user_message_times, now, reported_text, reporter_reason))
    /\ UNCHANGED <<now, scenario, tasks>>
    /\ UNCHANGED bot_vars

\* time passes between calls
Tick(d) ==
    /\ now + d <= MaxNow
    /\ now' = now + d
    /\ UNCHANGED <<user_message_times, last, scenario, tasks>>
    /\ UNCHANGED bot_vars

Next ==
    \/ \E text \in messages, user_id \in Senders : Analyze(text, user_id)
    \/ \E text \in reported, reason \in reasons : AnalyzeReport(text, reason)
    \/ \E d \in TickSteps : Tick(d)

Spec == Init /\ [][Next]_vars

SpecFlood == InitFlood /\ [][Next]_vars

SpecReports == InitReports /\ [][Next]_vars

(***************************************************************************)
(* The updates the bot handles                                             *)
(***************************************************************************)
\* how many reports the queue of the run may hold
ReportsCap == IF scenario = "report_flood" THEN MaxFloodReports ELSE MaxReports

ViolationsRoom(user_id) ==
    Len(get_user_violations(violations, user_id).violations) < MaxViolations

RepRoom(user_id) ==
    user_id \in DOMAIN reputation => Len(reputation[user_id].history) < MaxRepEvents

Update(handler, user_id, target, text, result, calls) ==
    [handler |-> handler, user_id |-> user_id, target |-> target, text |-> text,
     result |-> result, calls |-> calls]

\* a text message that is no command reaches handle_message; reply_to is the
\* author of the message it replies to.  No such message starts with
\* "/testme ", which the filter of the handler takes for a command.
HandleMessage(text, user_id, reply_to) ==
    /\ HasRoom(user_id)
    /\ ViolationsRoom(user_id)
    /\ RepRoom(user_id)
    /\ RepRoom(reply_to)
    /\ LET update(result, calls) ==
               handled' = Update("handle_message", user_id, reply_to, text, result, calls)
           plus_rep(p) ==
               /\ reputation' = p.reputation
               /\ rep_cooldowns' = p.rep_cooldowns
               /\ update(None, p.calls)
               /\ UNCHANGED <<user_message_times, last, violations>>
           skipped ==
               /\ update(None, <<>>)
               /\ UNCHANGED <<user_message_times, last, violations, reputation, rep_cooldowns>>
           acted(r, t) ==
               /\ user_message_times' = r.umt
               /\ last' = [op |-> "analyze", text |-> text, user_id |-> user_id,
                           reason |-> "", result |-> r.result,
                           repeated |-> SameCall("analyze", text, user_id, "")]
               /\ reputation' = IF ~r.result.is_violation /\ TriggersOf(text).praise
                                THEN rep_positive(reputation, user_id)
                                ELSE reputation
               /\ violations' = t.violations
               /\ update(r.result, t.calls)
               /\ UNCHANGED rep_cooldowns
           analysed(r) ==
               acted(r, IF r.result.is_violation /\ r.result.confidence >= ACT_CONFIDENCE
                        THEN take_action(violations, r.result, user_id)
                        ELSE NoAction(violations))
           dispatch(p) ==
               IF p.is_plus_rep THEN plus_rep(p)
               ELSE IF user_id \in ADMIN_IDS THEN skipped
               ELSE analysed(analyze(user_message_times, now, text, user_id))
       IN  dispatch(handle_plus_rep(rep_cooldowns, reputation, now, text, user_id, reply_to))
    /\ UNCHANGED <<now, scenario, tasks, reports, pending_captcha>>

\* /report <reason> as a reply to a message of reported_user (NoReply: no reply)
CmdReport(reporter, reported_user, reported_text, reason) ==
    /\ HasRoom(REPORT_USER_ID)
    /\ ViolationsRoom(reported_user)
    /\ Len(reports) < ReportsCap
    /\ LET update(result, calls) ==
               handled' = Update("cmd_report", reporter, reported_user, reported_text,
                                 result, calls)
           refused ==
               /\ update(None, <<"reply_text">>)
               /\ UNCHANGED <<user_message_times, last, violations, reports>>
           notify == [a \in 1..Cardinality(ADMIN_IDS) |-> "send_message"]
           filed(r, auto, t, queued) ==
               /\ user_message_times' = r.umt
               /\ last' = [op |-> "analyze_report", text |-> reported_text,
                           user_id |-> REPORT_USER_ID,
                           reason |-> reason, result |-> r.result,
                           repeated |-> SameCall("analyze_report", reported_text,
                                                 REPORT_USER_ID, reason)]
               /\ violations' = t.violations
               /\ reports' = IF auto
                             THEN update_report_status(queued, Len(queued), "actioned",
                                      "Auto-actioned: " \o r.result.reason)
                             ELSE queued
               /\ update(r.result, IF auto THEN t.calls \o <<"reply_text">>
                                   ELSE <<"reply_text">> \o notify)
           decided(r, auto) ==
               filed(r, auto,
                     IF auto THEN take_action(violations, r.result, reported_user)
                     ELSE NoAction(violations),
                     record_report(reports,
                         Report(reporter, reported_user, reported_text, reason, "pending")))
           analysed(r) == decided(r, r.result.is_violation /\ r.result.confidence >= 70)
       IN  IF reported_user = NoReply THEN refused
           ELSE IF reported_user = reporter THEN refused
           ELSE IF reported_user \in ADMIN_IDS THEN refused
           ELSE analysed(analyze_report(user_message_times, now, reported_text, reason))
    /\ UNCHANGED <<now, scenario, tasks, reputation, rep_cooldowns, pending_captcha>>

\* review that decides pending reports only
review_pending_only(data, report_id, action) ==
    LET pending == \E i \in 1..Len(data) : data[i].id = report_id /\ data[i].status = "pending"
    IN  IF ~pending THEN data
        ELSE IF action = "dismiss"
        THEN update_report_status(data, report_id, "dismissed", "Admin dismissed")
        ELSE update_report_status(data, report_id, "actioned", "Admin action: " \o action)

\* what /review and the review buttons do to the queue
review(data, report_id, action) ==
    IF action = "dismiss"
    THEN update_report_status(data, report_id, "dismissed", "Admin dismissed")
    ELSE update_report_status(data, report_id, "actioned", "Admin action: " \o action)

\* /review <report_id> <action>
CmdReview(user_id, report_id, action) ==
    /\ IF user_id \notin ADMIN_IDS
       THEN reports' = reports
       ELSE reports' = review(reports, report_id, action)
    /\ handled' = Update("cmd_review", user_id, report_id, action, None, <<"reply_text">>)
    /\ UNCHANGED <<user_message_times, now, last, scenario, tasks, violations, reputation,
                   rep_cooldowns, pending_captcha>>

\* a click on one of the buttons /pending shows under a report
HandleReviewCallback(user_id, report_id, action) ==
    /\ IF user_id \notin ADMIN_IDS
       THEN reports' = reports
       ELSE reports' = review(reports, report_id, action)
    /\ handled' = Update("handle_review_callback", user_id, report_id, action, None,
                         IF user_id \notin ADMIN_IDS THEN <<"answer", "answer">>
                         ELSE <<"answer", "edit_message_text">>)
    /\ UNCHANGED <<user_message_times, now, last, scenario, tasks, violations, reputation,
                   rep_cooldowns, pending_captcha>>

\* /warn, /mute and /ban as a reply to a message of target
AdminCommand(action, user_id, target) ==
    /\ ViolationsRoom(target)
    /\ IF user_id \notin ADMIN_IDS
       THEN /\ handled' = Update("cmd_" \o action, user_id, target, "", None, <<"reply_text">>)
            /\ violations' = violations
       ELSE IF target = NoReply
       THEN /\ handled' = Update("cmd_" \o action, user_id, target, "", None, <<"reply_text">>)
            /\ violations' = violations
       ELSE /\ handled' = Update("cmd_" \o action, user_id, target, "", None,
                                 <<action \o "_user">>)
            /\ violations' = record_violation(violations,
                                 Violation(target, "admin_" \o action, action, 100))
    /\ UNCHANGED <<user_message_times, now, last, scenario, tasks, reports, reputation,
                   rep_cooldowns, pending_captcha>>

CmdWarn(user_id, target) == AdminCommand("warn", user_id, target)

CmdMute(user_id, target) == AdminCommand("mute", user_id, target)

CmdBan(user_id, target) == AdminCommand("ban", user_id, target)

\* take_action called with a verdict, as handle_message and cmd_report call it
TakeAction(result, user_id) ==
    /\ ViolationsRoom(user_id)
    /\ LET done(t) ==
               /\ violations' = t.violations
               /\ handled' = Update("take_action", user_id, user_id, "", result, t.calls)
       IN  done(take_action(violations, result, user_id))
    /\ UNCHANGED <<user_message_times, now, last, scenario, tasks, reports, reputation,
                   rep_cooldowns, pending_captcha>>

\* a member joins and random.choice picks the puzzle; the member has no
\* unanswered puzzle in the chat
HandleNewMember(member, puzzle) ==
    /\ member \notin DOMAIN pending_captcha
    /\ IF member \in Bots
       THEN /\ pending_captcha' = pending_captcha
            /\ handled' = Update("handle_new_member", member, member, "", None, <<>>)
       ELSE /\ pending_captcha' =
                   [u \in DOMAIN pending_captcha \cup {member} |->
                       IF u = member
                       THEN [correct |-> correct_idx(puzzle), timestamp |-> now]
                       ELSE pending_captcha[u]]
            /\ handled' = Update("handle_new_member", member, member, puzzle.q, None,
                                 <<"restrict_chat_member", "send_message">>)
    /\ UNCHANGED <<user_message_times, now, last, scenario, tasks, violations, reports,
                   reputation, rep_cooldowns>>

\* a click on button number clicked (from 0) of the puzzle of target_user_id
HandleCaptchaCallback(from_user, target_user_id, clicked) ==
    /\ target_user_id \in DOMAIN pending_captcha
    /\ IF from_user # target_user_id
       THEN /\ pending_captcha' = pending_captcha
            /\ handled' = Update("handle_captcha_callback", from_user, target_user_id,
                                 str(clicked), None, <<"answer">>)
       ELSE IF clicked = pending_captcha[target_user_id].correct
       THEN /\ pending_captcha' =
                   [u \in DOMAIN pending_captcha \ {target_user_id} |-> pending_captcha[u]]
            /\ handled' = Update("handle_captcha_callback", from_user, target_user_id,
                                 str(clicked), None, <<"answer", "restrict_chat_member",
                                         "edit_message_text">>)
       ELSE /\ pending_captcha' = pending_captcha
            /\ handled' = Update("handle_captcha_callback", from_user, target_user_id,
                                 str(clicked), None, <<"answer">>)
    /\ UNCHANGED <<user_message_times, now, last, scenario, tasks, violations, reports,
                   reputation, rep_cooldowns>>

\* time passes between updates
Elapse(d, horizon) ==
    /\ now + d <= horizon
    /\ now' = now + d
    /\ UNCHANGED <<user_message_times, last, scenario, tasks>>
    /\ UNCHANGED bot_vars

\* the verdicts take_action may be handed: every combination of the flags
FlagVerdicts ==
    {AnalysisResult(TRUE, "spam", 60, "verdict", should_delete, should_warn,
                    should_mute, should_ban) :
        should_delete \in BOOLEAN, should_warn \in BOOLEAN,
        should_mute \in BOOLEAN, should_ban \in BOOLEAN}

\* messages of a member and of the admin, and the admin's commands
InitMessages == InitAnalyzer /\ scenario = "messages"

NextMessages ==
    \/ \E text \in MessageTexts, user_id \in {1} \cup ADMIN_IDS :
           HandleMessage(text, user_id, NoReply)
    \/ \E user_id \in {2} \cup ADMIN_IDS, target \in {NoReply, 1} : CmdWarn(user_id, target)
    \/ \E user_id \in ADMIN_IDS, target \in {1} : CmdMute(user_id, target)

SpecMessages == InitMessages /\ [][NextMessages]_vars

\* reports and their review
InitQueue == InitAnalyzer /\ scenario = "queue"

NextQueue ==
    \/ \E reporter \in {1}, reported_user \in Senders \cup ADMIN_IDS \cup {NoReply},
          text \in ReportedTexts, reason \in QueueReasons :
           CmdReport(reporter, reported_user, text, reason)
    \/ \E user_id \in {1} \cup ADMIN_IDS, report_id \in 1..MaxReports,
          action \in {"dismiss", "warn"} :
           CmdReview(user_id, report_id, action)
    \/ \E user_id \in {1} \cup ADMIN_IDS, report_id \in 1..MaxReports,
          action \in {"dismiss", "mute", "ban"} :
           HandleReviewCallback(user_id, report_id, action)

SpecQueue == InitQueue /\ [][NextQueue]_vars

\* many reports within a minute: the first ten reports of a run are the same
\* request, the later ones vary in reporter, reported user, text and reason
InitReportFlood == InitAnalyzer /\ scenario = "report_flood"

NextReportFlood ==
    \/ \E reporter \in Senders, reported_user \in Senders,
          text \in FloodReportTexts, reason \in QueueReasons :
           /\ reporter # reported_user
           /\ Len(reports) < MAX_MESSAGES_PER_MINUTE =>
                  /\ reporter = 1
                  /\ text = ""
                  /\ reason = "No reason provided"
           /\ CmdReport(reporter, reported_user, text, reason)
    \/ \E d \in TickSteps : Tick(d)

SpecReportFlood == InitReportFlood /\ [][NextReportFlood]_vars

\* take_action on every verdict, and the admin's /ban
InitTakeAction == InitAnalyzer /\ scenario = "take_action"

NextTakeAction ==
    \/ \E result \in FlagVerdicts, user_id \in {1} : TakeAction(result, user_id)
    \/ \E user_id \in ADMIN_IDS, target \in {1} : CmdBan(user_id, target)

SpecTakeAction == InitTakeAction /\ [][NextTakeAction]_vars

\* members join and click; time passes whatever the members do
InitCaptcha == InitAnalyzer /\ scenario = "captcha"

ElapseCaptcha == Elapse(CaptchaTick, MaxCaptchaNow)

NextCaptcha ==
    \/ \E member \in Joiners \cup Bots, k \in 1..Len(WELCOME_PUZZLES) :
           HandleNewMember(member, WELCOME_PUZZLES[k])
    \/ \E from_user \in Joiners, target \in Joiners, clicked \in 0..3 :
           HandleCaptchaCallback(from_user, target, clicked)
    \/ ElapseCaptcha

SpecCaptcha == InitCaptcha /\ [][NextCaptcha]_vars /\ WF_vars(ElapseCaptcha)

\* members give +rep and praise the product over two hours
InitRep == InitAnalyzer /\ scenario = "rep"

NextRep ==
    \/ \E text \in PlusRepTexts, reply_to \in Senders \cup Bots \cup {NoReply} :
           HandleMessage(text, 1, reply_to)
    \/ \E text \in RepTexts : HandleMessage(text, 2, 1)
    \/ Elapse(RepTick, MaxRepNow)

SpecRep == InitRep /\ [][NextRep]_vars

(***************************************************************************)
(* Handlers as coroutines.  A handler runs without interruption from one   *)
(* await of a Telegram call to the next; between two such awaits the event *)
(* loop may run any other pending handler.  analyze, analyze_report,       *)
(* should_escalate, record_report, record_violation and                    *)
(* update_report_status are plain calls: they hold no await.               *)
(***************************************************************************)
\* the messages of the runs with pending handlers: enough clean ones flood
ConcurrentTexts == { "" }

\* a handler that has not started yet
Task(handler, user_id, target, text, reason) ==
    [handler |-> handler, user_id |-> user_id, target |-> target, text |-> text,
     reason |-> reason, pc |-> "start", result |-> None,
     esc |-> <<FALSE, "warn">>, report_id |-> 0]

\* the sender id the classifier call of the task counts the message under
TrackerId(task) == IF task.handler = "cmd_report" THEN REPORT_USER_ID ELSE task.user_id

Remove(seq, i) == SubSeq(seq, 1, i - 1) \o SubSeq(seq, i + 1, Len(seq))

\* the if/elif chain of take_action on the escalation read before the awaits
decide_action(result, esc) ==
    IF result.should_ban \/ (esc[1] /\ esc[2] = "ban") THEN "ban"
    ELSE IF result.should_mute \/ (esc[1] /\ esc[2] = "mute") THEN "mute"
    ELSE IF result.should_warn THEN "warn"
    ELSE "none"

\* take_action from its first await on: the calls, then record_violation
take_action_after_await(data, result, user_id, esc) ==
    LET done(action_taken) ==
            [calls |-> (IF result.should_delete THEN <<"delete_message">> ELSE <<>>)
                          \o (IF action_taken = "none" THEN <<>>
                              ELSE <<action_taken \o "_user">>),
             action_taken |-> action_taken,
             violations |->
                 IF action_taken # "none"
                 THEN record_violation(data,
                          Violation(user_id,
                                    IF result.violation_type = NoType THEN "unknown"
                                    ELSE result.violation_type,
                                    action_taken, result.confidence))
                 ELSE data]
    IN  done(decide_action(result, esc))

\* an update arrives and its handler is scheduled: a message of a member, or
\* a /report that cmd_report accepts
Arrive(task) ==
    /\ Len(tasks) < MaxPending
    /\ tasks' = Append(tasks, task)
    /\ UNCHANGED <<user_message_times, now, last, scenario, violations, reports,
                   reputation, rep_cooldowns, pending_captcha, handled>>

\* the handler runs from its start to its first await: it classifies the
\* message, cmd_report files the report, and take_action reads the escalation
Start(i) ==
    /\ i \in 1..Len(tasks)
    /\ tasks[i].pc = "start"
    /\ HasRoom(TrackerId(tasks[i]))
    /\ ViolationsRoom(tasks[i].target)
    /\ tasks[i].handler = "cmd_report" => Len(reports) < MaxReports
    /\ LET task == tasks[i]
           report == task.handler = "cmd_report"
           threshold == IF report THEN 70 ELSE ACT_CONFIDENCE
           run(r, queued) ==
               /\ user_message_times' = r.umt
               /\ last' = [op |-> IF report THEN "analyze_report" ELSE "analyze",
                           text |-> task.text, user_id |-> TrackerId(task),
                           reason |-> task.reason, result |-> r.result,
                           repeated |-> SameCall(IF report THEN "analyze_report"
                                                 ELSE "analyze",
                                                 task.text, TrackerId(task), task.reason)]
               /\ reports' = queued
               /\ reputation' = IF ~report /\ ~r.result.is_violation
                                     /\ TriggersOf(task.text).praise
                                THEN rep_positive(reputation, task.user_id)
                                ELSE reputation
               /\ IF r.result.is_violation /\ r.result.confidence >= threshold
                  THEN /\ tasks' = [tasks EXCEPT ![i] =
                                       [task EXCEPT !.pc = "enforce",
                                                    !.result = r.result,
                                                    !.esc = should_escalate(violations,
                                                                            task.target),
                                                    !.report_id = Len(queued)]]
                       /\ handled' = handled
                  ELSE /\ tasks' = Remove(tasks, i)
                       /\ handled' = Update(task.handler, task.user_id, task.target,
                                            task.text, r.result,
                                            IF report THEN <<"reply_text", "send_message">>
                                            ELSE <<>>)
       IN  IF report
           THEN run(analyze_report(user_message_times, now, task.text, task.reason),
                    record_report(reports,
                        Report(task.user_id, task.target, task.text, task.reason, "pending")))
           ELSE run(analyze(user_message_times, now, task.text, task.user_id), reports)
    /\ UNCHANGED <<now, scenario, violations, rep_cooldowns, pending_captcha>>

\* the awaited Telegram calls of take_action return: the handler records the
\* violation, cmd_report marks its report, and the handler ends
Finish(i) ==
    /\ i \in 1..Len(tasks)
    /\ tasks[i].pc = "enforce"
    /\ LET task == tasks[i]
           report == task.handler = "cmd_report"
           end(t) ==
               /\ violations' = t.violations
               /\ reports' = IF report
                             THEN update_report_status(reports, task.report_id, "actioned",
                                      "Auto-actioned: " \o task.result.reason)
                             ELSE reports
               /\ handled' = Update(task.handler, task.user_id, task.target, task.text,
                                    task.result,
                                    IF report THEN t.calls \o <<"reply_text">> ELSE t.calls)
       IN  end(take_action_after_await(violations, task.result, task.target, task.esc))
    /\ tasks' = Remove(tasks, i)
    /\ UNCHANGED <<user_message_times, now, last, scenario, reputation, rep_cooldowns,
                   pending_captcha>>

InitConcurrent == InitAnalyzer /\ scenario = "concurrent"

NextConcurrent ==
    \/ \E text \in ConcurrentTexts : Arrive(Task("handle_message", 1, 1, text, ""))
    \/ \E text \in ReportedTexts :
           Arrive(Task("cmd_report", 2, 1, text, "No reason provided"))
    \/ \E i \in 1..MaxPending : Start(i)
    \/ \E i \in 1..MaxPending : Finish(i)

SpecConcurrent == InitConcurrent /\ [][NextConcurrent]_vars

(***************************************************************************)
(* Properties                                                              *)
(***************************************************************************)
\* what the claims say about a text, evaluated once per message:
\* the pairs <<text, facts>>
DefenderSpeech(text_lower) ==
    /\ AnyIn(positive_indicators, text_lower) \/ AnyIn(defending_patterns, text_lower)
    /\ In("relay", text_lower) \/ In("this app", text_lower) \/ In("the app", text_lower)
    /\ ~(In("other app", text_lower) \/ In("another app", text_lower))

AllowListed(url) == \E k \in 1..Len(allowed_domains) : In(allowed_domains[k], lower(url))

TextFacts ==
    {<<t, [len       |-> Len(t),
           regex     |-> \E k \in 1..Len(SPAM_PATTERNS) :
                             search_ignorecase(SPAM_PATTERNS[k].re, t),
           keywords  |-> Cardinality({k \in 1..Len(SUSPICIOUS_KEYWORDS) :
                             In(SUSPICIOUS_KEYWORDS[k], lower(t))}),
           caps      |-> Len(t) > 20 /\ 10 * caps_count(t) > 7 * Len(t),
           defender  |-> DefenderSpeech(lower(t)),
           directed  |-> matches_directed(lower(t)),
           other_app |-> In("other app", lower(t)) \/ In("another app", lower(t)),
           praise    |-> AnyIn(positive_indicators, lower(t)) /\ In("relay", lower(t)),
           offensive |-> matches_offensive(lower(t)),
           urls      |-> findall(url_pattern, t),
           on_topic  |-> Cardinality({k \in 1..Len(RELAY_KEYWORDS) :
                             In(RELAY_KEYWORDS[k], lower(t))})]>> : t \in Texts \cup FloodTexts}

FactsOf(text) == (CHOOSE p \in TextFacts : p[1] = text)[2]

\* the step is a call of analyze; last' holds its arguments and its verdict
AnalyzeStep == now' = now /\ last'.op = "analyze"

Flags(r) == <<r.should_delete, r.should_warn, r.should_mute, r.should_ban>>

\* r is a violation verdict of this kind and confidence with these
\* <<delete, warn, mute, ban>> flags
IsVerdict(r, kind, confidence, flags) ==
    /\ r # None
    /\ r.is_violation
    /\ r.violation_type = kind
    /\ r.confidence = confidence
    /\ Flags(r) = flags

\* the number of recorded timestamps less than 60 seconds old
InWindow(times, t_now) ==
    Cardinality({i \in 1..Len(times) : t_now - times[i] < WINDOW_SECONDS})

----
\* C1: analyze returns the verdict of the earliest check that fires, in the
\* order spam, flood, harassment, external links, off-topic; when none fires
\* it returns the non-violating verdict with confidence 0.
Outcomes(c, user_id) ==
    <<c.spam,
      _check_flood(user_message_times, now, user_id).result,
      c.harassment,
      c.external_links,
      c.off_topic>>

C1_EarliestFiringCheckWins ==
    [][AnalyzeStep =>
        \A c \in {ChecksOf(last'.text)} :
            \A outs \in {Outcomes(c, last'.user_id)} :
                \A fired \in {{k \in 1..Len(outs) : outs[k] # None}} :
                    IF fired # {}
                    THEN last'.result = outs[CHOOSE k \in fired : \A j \in fired : k <= j]
                    ELSE /\ ~last'.result.is_violation
                         /\ last'.result.violation_type = NoType
                         /\ last'.result.confidence = 0
                         /\ Flags(last'.result) = <<FALSE, FALSE, FALSE, FALSE>>]_vars

\* a flood verdict for a message on which the harassment check fires as well
C1_Witness ==
    /\ last.op = "analyze"
    /\ last.result.violation_type = "flood"
    /\ ChecksOf(last.text).harassment # None

----
\* C2 (as amended): counting the sender's recorded timestamps that are less
\* than 60 seconds old (the messages that passed the spam check), analyze
\* returns a flood verdict (0.9, mute) exactly for the calls that pass the
\* spam check and bring that count above MAX_MESSAGES_PER_MINUTE.
C2_FloodExactlyAboveCap ==
    [][AnalyzeStep =>
        LET n == InWindow(history(user_message_times, last'.user_id), now)
        IN  /\ (last'.result.violation_type = "flood")
                   <=> (ChecksOf(last'.text).spam = None /\ n + 1 > MAX_MESSAGES_PER_MINUTE)
            /\ last'.result.violation_type = "flood"
                   => IsVerdict(last'.result, "flood", 90, <<FALSE, FALSE, TRUE, FALSE>>)]_vars

\* the call that crossed the cap: the history holds one entry more than the cap
C2_Witness ==
    /\ last.op = "analyze"
    /\ last.result.violation_type = "flood"
    /\ Len(history(user_message_times, last.user_id)) = MAX_MESSAGES_PER_MINUTE + 1

\* C2 (as claimed): the call for the message that brings the number of the
\* sender's messages in the window above the cap returns a flood verdict.
\* A call made when MAX_MESSAGES_PER_MINUTE recorded messages of the sender
\* are in the window is that call, unless an earlier call of the sender was
\* and got no flood verdict.
C2_CrossingCallFloods ==
    [][AnalyzeStep
         /\ InWindow(history(user_message_times, last'.user_id), now) = MAX_MESSAGES_PER_MINUTE
       => IsVerdict(last'.result, "flood", 90, <<FALSE, FALSE, TRUE, FALSE>>)]_vars

----
\* C3: analyze_report on a text without a primary-classifier hit, with a
\* reason that holds a spam keyword and no harassment keyword, returns the
\* spam verdict with confidence 0.6 of the reason fallback.
NoPrimaryHit(text) ==
    /\ ChecksOf(text).spam = None
    /\ ChecksOf(text).harassment = None
    /\ ChecksOf(text).external_links = None
    /\ ChecksOf(text).off_topic = None

SpamReason(reason) ==
    /\ \E k \in 1..Len(spam_keywords) : In(spam_keywords[k], lower(reason))
    /\ ~\E k \in 1..Len(harassment_keywords) : In(harassment_keywords[k], lower(reason))

C3_ReportFallsBackToSpamReason ==
    (/\ last.op = "analyze_report"
     /\ NoPrimaryHit(last.text)
     /\ SpamReason(last.reason))
    => IsVerdict(last.result, "spam", 60, <<TRUE, FALSE, TRUE, FALSE>>)

----
\* C4: analyze("you are such an idiot") returns the directed-harassment
\* verdict: harassment, 0.9, delete and warn.
C4_DirectedInsultVerdict ==
    (last.op = "analyze" /\ last.text = "you are such an idiot")
    => IsVerdict(last.result, "harassment", 90, <<TRUE, TRUE, FALSE, FALSE>>)

----
----
\* C6: a message that matches a configured spam regular expression gets
\* spam, 0.95, delete and ban, also when it holds three suspicious keywords
\* or is mostly upper-case.
C6_SpamRegexHasPriority ==
    (last.op = "analyze" /\ FactsOf(last.text).regex)
    => IsVerdict(last.result, "spam", 95, <<TRUE, FALSE, FALSE, TRUE>>)

\* a message with a regex match and three keywords was analyzed
C6_Witness ==
    /\ last.op = "analyze"
    /\ FactsOf(last.text).regex
    /\ FactsOf(last.text).keywords >= 3
    /\ last.result.confidence = 95

----
\* C7: a message with three or more of the configured suspicious keywords
\* and no spam regex match gets spam, 0.8, delete and mute, whatever the
\* order of the keywords and however often each is repeated.
C7_ThreeKeywordsAreSpam ==
    (last.op = "analyze" /\ FactsOf(last.text).keywords >= 3 /\ ~FactsOf(last.text).regex)
    => IsVerdict(last.result, "spam", 80, <<TRUE, FALSE, TRUE, FALSE>>)

\* three keywords, one of them repeated, in another order than configured
C7_Witness ==
    /\ last.op = "analyze"
    /\ last.text = "crypto crypto invest click here crypto"
    /\ last.result.confidence = 80

----
\* C8 (as amended): with N = MAX_LINKS_PER_MESSAGE, the external-links check
\* returns nothing for N URLs that all hold an allow-listed substring,
\* returns 0.7, delete and warn for N+1 URLs, and returns 0.5, warn for at
\* most N URLs of which one holds neither an allow-listed substring nor "t.me".
LinksCase(text, Suspect(_)) ==
    LET urls  == FactsOf(text).urls
        links == ChecksOf(text).external_links
    IN  /\ (Len(urls) = MAX_LINKS_PER_MESSAGE
              /\ \A k \in 1..Len(urls) : AllowListed(urls[k]))
           => links = None
        /\ Len(urls) = MAX_LINKS_PER_MESSAGE + 1
           => IsVerdict(links, "external_links", 70, <<TRUE, TRUE, FALSE, FALSE>>)
        /\ (Len(urls) <= MAX_LINKS_PER_MESSAGE
              /\ \E k \in 1..Len(urls) : Suspect(urls[k]))
           => IsVerdict(links, "external_links", 50, <<FALSE, TRUE, FALSE, FALSE>>)

NotAllowedNorTelegram(url) == ~AllowListed(url) /\ ~In("t.me", url)
NotAllowed(url) == ~AllowListed(url)

C8_LinksVerdicts ==
    last.op = "analyze" => LinksCase(last.text, NotAllowedNorTelegram)

\* a message with exactly N allow-listed URLs was analyzed
C8_Witness ==
    /\ last.op = "analyze"
    /\ Len(FactsOf(last.text).urls) = MAX_LINKS_PER_MESSAGE
    /\ \A k \in 1..MAX_LINKS_PER_MESSAGE : AllowListed(FactsOf(last.text).urls[k])
    /\ last.result = CleanResult

\* C8 (as claimed): ... and returns 0.5, warn for at most N URLs of which one
\* holds no allow-listed substring.
C8_AnyNotAllowedUrlIsFlagged ==
    last.op = "analyze" => LinksCase(last.text, NotAllowed)

----
\* C9: a message of more than 100 characters without on-topic keyword, on
\* which no earlier check fires, gets off_topic, 0.3, no action flag; a
\* message of at most 100 characters never gets an off-topic verdict.
C9_OffTopicOnlyAbove100 ==
    last.op = "analyze" =>
        /\ (/\ FactsOf(last.text).len > 100
            /\ FactsOf(last.text).on_topic = 0
            /\ ChecksOf(last.text).spam = None
            /\ last.result.violation_type # "flood"
            /\ ChecksOf(last.text).harassment = None
            /\ ChecksOf(last.text).external_links = None)
           => IsVerdict(last.result, "off_topic", 30, <<FALSE, FALSE, FALSE, FALSE>>)
        /\ FactsOf(last.text).len <= 100 => last.result.violation_type # "off_topic"

\* a message of LongLen characters got the off-topic verdict
C9_Witness ==
    /\ last.op = "analyze"
    /\ FactsOf(last.text).len = LongLen
    /\ last.result.violation_type = "off_topic"

----
\* C10 (as amended): two consecutive analyze calls with the same text and
\* sender return the same verdict unless the first or the second verdict is
\* a flood verdict; the verdict is that of the same text for any sender whose
\* history holds the same number of timestamps less than 60 seconds old.
SameCount(n) == [u \in {1} |-> [i \in 1..n |-> 0]]

C10_VerdictDependsOnTextAndCount ==
    [][AnalyzeStep =>
        /\ (last.op = "analyze" /\ last.text = last'.text /\ last.user_id = last'.user_id)
           => \/ last'.result = last.result
              \/ last.result.violation_type = "flood"
              \/ last'.result.violation_type = "flood"
        /\ LET n == InWindow(history(user_message_times, last'.user_id), now)
           IN  last'.result = analyze(SameCount(n), 0, last'.text, 1).result]_vars

\* the same message of the same sender was analyzed twice in a row
C10_Witness ==
    /\ last.op = "analyze"
    /\ last.repeated
    /\ last.result.violation_type # "flood"
    /\ Len(history(user_message_times, last.user_id)) >= 2

\* C10 (as claimed): two consecutive analyze calls with the same text and
\* sender return the same verdict unless the second verdict is a flood verdict.
C10_SecondCallDiffersOnlyByFlood ==
    [][(AnalyzeStep /\ last.op = "analyze"
          /\ last.text = last'.text /\ last.user_id = last'.user_id)
       => \/ last'.result = last.result
          \/ last'.result.violation_type = "flood"]_vars

----
\* C11: every verdict of analyze and analyze_report that is no violation has
\* no violation type, confidence 0 and no action flag; every verdict that is
\* a violation has a violation type and a confidence above 0 and at most 1.
WellFormed(r) ==
    IF r.is_violation
    THEN r.violation_type # NoType /\ r.confidence > 0 /\ r.confidence <= 100
    ELSE /\ r.violation_type = NoType
         /\ r.confidence = 0
         /\ Flags(r) = <<FALSE, FALSE, FALSE, FALSE>>

C11_VerdictsAreWellFormed ==
    /\ last.op # "none" => WellFormed(last.result)
    /\ \A n \in 0..MaxFloodHistory :
           \A r \in {_check_flood(SameCount(n), 0, 1).result} : r # None => WellFormed(r)

\* a report got the needs-review verdict
C11_Witness ==
    /\ last.op = "analyze_report"
    /\ ~last.result.is_violation
    /\ last.result.reason = "Report requires admin review"

----
\* C12: when the primary classifier returns no violation with confidence
\* above 0.7 for the reported text, analyze_report returns harassment 0.6 if
\* the lower-cased reason holds a harassment keyword, else spam 0.6 if it
\* holds a spam keyword, else off_topic 0.5 if it holds an off-topic keyword.
ReportStep == now' = now /\ last'.op = "analyze_report"

KindAndConfidence(r, kind, confidence) ==
    r.is_violation /\ r.violation_type = kind /\ r.confidence = confidence

\* which keyword sets the lower-cased reason hits, evaluated once per reason:
\* the pairs <<reason, hits>>
ReasonFacts ==
    {<<r, [harassment |-> \E k \in 1..Len(harassment_keywords) :
                              In(harassment_keywords[k], lower(r)),
           spam       |-> \E k \in 1..Len(spam_keywords) : In(spam_keywords[k], lower(r)),
           off_topic  |-> \E k \in 1..Len(offtopic_keywords) :
                              In(offtopic_keywords[k], lower(r))]>> :
        r \in Reasons \cup FloodReasons \cup QueueReasons}

FactsOfReason(reason) == (CHOOSE p \in ReasonFacts : p[1] = reason)[2]

ReasonPriority(primary, hits, r) ==
    ~(primary.is_violation /\ primary.confidence > 70) =>
        /\ hits.harassment => KindAndConfidence(r, "harassment", 60)
        /\ (~hits.harassment /\ hits.spam) => KindAndConfidence(r, "spam", 60)
        /\ (~hits.harassment /\ ~hits.spam /\ hits.off_topic)
           => KindAndConfidence(r, "off_topic", 50)

C12_ReasonPriority ==
    [][ReportStep =>
        \A primary \in {analyze(user_message_times, now, last'.text, REPORT_USER_ID).result},
           hits \in {FactsOfReason(last'.reason)} :
            ReasonPriority(primary, hits, last'.result)]_vars

\* a reason with a keyword of each of the three sets got the harassment verdict
C12_Witness ==
    /\ last.op = "analyze_report"
    /\ FactsOfReason(last.reason).harassment
    /\ FactsOfReason(last.reason).spam
    /\ FactsOfReason(last.reason).off_topic
    /\ KindAndConfidence(last.result, "harassment", 60)

----
\* C16: an analyze call for a sender leaves the history of every other
\* sender as it was, and returns the verdict it returns when the histories of
\* all other senders are empty.
OwnHistory(umt, user_id) == [u \in DOMAIN umt \cap {user_id} |-> umt[u]]

C16_SendersAreIndependent ==
    [][AnalyzeStep =>
        /\ \A u \in DOMAIN user_message_times \ {last'.user_id} :
               /\ u \in DOMAIN user_message_times'
               /\ user_message_times'[u] = user_message_times[u]
        /\ DOMAIN user_message_times' \subseteq DOMAIN user_message_times \cup {last'.user_id}
        /\ last'.result = analyze(OwnHistory(user_message_times, last'.user_id), now,
                                  last'.text, last'.user_id).result]_vars

\* sender 2 got no flood verdict while sender 1 was above the cap
C16_Witness ==
    /\ last.op = "analyze"
    /\ last.user_id = 2
    /\ last.result.violation_type # "flood"
    /\ Len(history(user_message_times, 1)) > MAX_MESSAGES_PER_MINUTE
    /\ Len(history(user_message_times, 2)) >= 1

----
\* C20: every evaluation of the flood check (every classifier call whose
\* message passes the spam check) leaves the sender's history as the entries
\* less than 60 seconds old followed by the current time, whether or not it
\* returns a flood verdict.
ClassifierStep == now' = now /\ last'.op \in {"analyze", "analyze_report"}

C20_FloodCheckAlwaysRecords ==
    [][(ClassifierStep /\ ChecksOf(last'.text).spam = None) =>
        \A before \in {history(user_message_times, last'.user_id)},
           after \in {history(user_message_times', last'.user_id)} :
            /\ Len(after) = InWindow(before, now) + 1
            /\ after[Len(after)] = now]_vars

\* a flood verdict for a sender whose history holds an earlier flagged message
C20_Witness ==
    /\ last.op = "analyze"
    /\ last.result.violation_type = "flood"
    /\ Len(history(user_message_times, last.user_id)) >= MAX_MESSAGES_PER_MINUTE + 2

----
\* C13: a report that gets the needs-review verdict is filed by cmd_report
\* with status pending, with no enforcement call and no violation record; a
\* pending report stays in get_pending_reports in every step but an admin's
\* review of that report; and the needs-review verdict, the only verdict of
\* analyze_report that is no violation, differs from the clean verdict.
Calls(update) == {update.calls[i] : i \in 1..Len(update.calls)}

EnforcementCalls == {"delete_message", "warn_user", "mute_user", "ban_user"}

\* cmd_report has analysed a message and filed the report
FilingStep == Len(reports') = Len(reports) + 1

\* an admin has reviewed the report with this id
AdminReviewOf(report_id) ==
    /\ handled'.handler \in {"cmd_review", "handle_review_callback"}
    /\ handled'.user_id \in ADMIN_IDS
    /\ handled'.target = report_id

IsPending(data, report) ==
    \E i \in 1..Len(get_pending_reports(data)) : get_pending_reports(data)[i] = report

C13_NeedsReviewStaysPending ==
    [][/\ (FilingStep /\ last'.result = NeedsReviewResult)
          => /\ reports'[Len(reports')].status = "pending"
             /\ IsPending(reports', reports'[Len(reports')])
             /\ \A i \in 1..Len(reports) : reports'[i] = reports[i]
             /\ violations' = violations
             /\ Calls(handled') \cap EnforcementCalls = {}
       /\ \A i \in 1..Len(reports) :
              reports[i].status = "pending"
              => \/ IsPending(reports', reports[i])
                 \/ AdminReviewOf(reports[i].id)
       /\ (last'.op = "analyze_report" /\ ~last'.result.is_violation)
          => /\ last'.result = NeedsReviewResult
             /\ last'.result # CleanResult]_vars

\* a report without reason is still pending after the admin dealt with a
\* later report
C13_Witness ==
    /\ Len(reports) = 2
    /\ reports[1].status = "pending"
    /\ reports[1].reason = "No reason provided"
    /\ reports[1].reported_message = ""
    /\ reports[2].status = "dismissed"
    /\ handled.handler = "cmd_review"

\* C14: take_action applies at most one of ban, mute and warn per call, the
\* ban before the mute before the warn: it bans whenever should_ban is set,
\* mutes only when no ban applies, warns only when neither applies; it
\* deletes the message exactly when should_delete is set, whichever of the
\* three it applies.
TakeActionStep == handled'.handler = "take_action"

Punishments == {"ban_user", "mute_user", "warn_user"}

BanApplies(result, esc) == result.should_ban \/ esc = <<TRUE, "ban">>

MuteApplies(result, esc) == result.should_mute \/ esc = <<TRUE, "mute">>

Precedence(result, calls, esc) ==
    /\ Cardinality(calls \cap Punishments) <= 1
    /\ result.should_ban => "ban_user" \in calls
    /\ "ban_user" \in calls <=> BanApplies(result, esc)
    /\ "mute_user" \in calls <=> ~BanApplies(result, esc) /\ MuteApplies(result, esc)
    /\ "warn_user" \in calls <=>
           ~BanApplies(result, esc) /\ ~MuteApplies(result, esc) /\ result.should_warn
    /\ "delete_message" \in calls <=> result.should_delete

C14_BanBeforeMuteBeforeWarn ==
    [][TakeActionStep =>
          \A calls \in {Calls(handled')},
             esc \in {should_escalate(violations, handled'.user_id)} :
              Precedence(handled'.result, calls, esc)]_vars

\* a verdict that sets all four flags was answered with the deletion and the ban
C14_Witness ==
    /\ handled.handler = "take_action"
    /\ handled.result # None
    /\ handled.result.should_ban /\ handled.result.should_mute
    /\ handled.result.should_warn /\ handled.result.should_delete
    /\ handled.calls = <<"delete_message", "ban_user">>

\* C15: handle_message takes an enforcement action on a message exactly when
\* analyze returns a violation with a confidence of at least 0.6; an off-topic
\* verdict (0.3) and a single-link verdict (0.5) cause no delete, warn, mute
\* or ban and add no violation record.
AnalysedStep ==
    /\ handled'.handler = "handle_message"
    /\ handled'.result # None
    /\ last'.op = "analyze"

Actionable(result) == result.is_violation /\ result.confidence >= 60

BelowThreshold(result) ==
    \/ result.violation_type = "off_topic" /\ result.confidence = 30
    \/ result.violation_type = "external_links" /\ result.confidence = 50

ActsExactlyWhenActionable(result, calls, before, after) ==
    /\ (calls \cap EnforcementCalls # {}) <=> Actionable(result)
    /\ (after # before) <=> Actionable(result)
    /\ BelowThreshold(result) => calls = {} /\ after = before
    /\ result.violation_type = "off_topic" => result.confidence = 30
    /\ Actionable(result) =>
           Len(get_user_violations(after, handled'.user_id).violations)
               = Len(get_user_violations(before, handled'.user_id).violations) + 1

C15_ActsFromSixtyPercent ==
    [][AnalysedStep =>
          /\ handled'.result = last'.result
          /\ handled'.result = analyze(user_message_times, now, handled'.text,
                                       handled'.user_id).result
          /\ \A calls \in {Calls(handled')} :
                 ActsExactlyWhenActionable(handled'.result, calls, violations, violations')]_vars

\* a message with one external link was analysed, flagged at 0.5 and let through
C15_Witness ==
    /\ handled.handler = "handle_message"
    /\ handled.result # None
    /\ handled.result.is_violation
    /\ handled.result.violation_type = "external_links"
    /\ handled.result.confidence = 50
    /\ handled.calls = <<>>
    /\ get_user_violations(violations, handled.user_id).violations = <<>>

\* C17: graduated punishment.  The messages of these runs draw verdicts that
\* recommend a warning at most, so every mute and every ban take_action
\* applies comes from the escalation.
AdminTypes == {"admin_warn", "admin_mute", "admin_ban"}

ByAdmin(violation) == violation.violation_type \in AdminTypes

Recorded(user_id) == get_user_violations(violations, user_id).violations

\* how many of the first n recorded violations ended in the action
CountBefore(entries, n, action) ==
    Cardinality({j \in 1..n : entries[j].action_taken = action})

Ladder(k) == IF k <= WARN_BEFORE_BAN THEN "warn"
             ELSE IF k = WARN_BEFORE_BAN + 1 THEN "mute" ELSE "ban"

\* the statement as written: whatever else the record of the user holds, the
\* k-th violation is a warning for k <= 3, a mute for k = 4 and a ban from
\* then on, be k counted over the violations take_action records or over all
\* the violations of the user
C17_LadderOverTakeActionCalls ==
    \A user_id \in DOMAIN violations :
        \A entries \in {Recorded(user_id)},
           own \in {SelectSeq(Recorded(user_id), LAMBDA v : ~ByAdmin(v))} :
            \/ \A k \in 1..Len(own) : own[k].action_taken = Ladder(k)
            \/ \A k \in 1..Len(entries) :
                   ~ByAdmin(entries[k]) => entries[k].action_taken = Ladder(k)

\* C17 (amended): the ladder warn, warn, warn, mute, ban, ... holds for a user
\* whose record holds no violation written by /warn, /mute or /ban; in
\* general take_action warns while fewer than 3 warnings are recorded from
\* any source, then mutes if no mute is recorded and bans otherwise, so that
\* no escalation ban comes before a recorded mute.
C17_GraduatedPunishment ==
    \A user_id \in DOMAIN violations :
        \A entries \in {Recorded(user_id)} :
            /\ (\A k \in 1..Len(entries) : ~ByAdmin(entries[k])) =>
                   \A k \in 1..Len(entries) : entries[k].action_taken = Ladder(k)
            /\ \A k \in 1..Len(entries) :
                   ~ByAdmin(entries[k]) =>
                       /\ entries[k].action_taken =
                              IF CountBefore(entries, k - 1, "warn") < WARN_BEFORE_BAN
                              THEN "warn"
                              ELSE IF CountBefore(entries, k - 1, "mute") = 0
                              THEN "mute" ELSE "ban"
                       /\ entries[k].action_taken = "ban" =>
                              CountBefore(entries, k - 1, "mute") >= 1

\* five violations of one member, none recorded by an admin: three
\* warnings, the mute, the ban
C17_Witness ==
    /\ 1 \in DOMAIN violations
    /\ Len(Recorded(1)) = 5
    /\ \A k \in 1..5 : ~ByAdmin(Recorded(1)[k]) /\ Recorded(1)[k].action_taken = Ladder(k)

\* C18: a member who is no bot and has not solved the captcha within
\* CAPTCHA_TIMEOUT_SECONDS after joining is eventually kicked from the chat
\* (CAPTCHA_KICK_ON_FAIL is true), and the entry of the member in
\* pending_captcha is removed.
Overdue(member) ==
    /\ CAPTCHA_KICK_ON_FAIL
    /\ member \in DOMAIN pending_captcha
    /\ now - pending_captcha[member].timestamp >= CAPTCHA_TIMEOUT_SECONDS

\* the bot has just removed the member from the chat
Kicked(member) ==
    /\ handled.target = member
    /\ \E i \in 1..Len(handled.calls) :
           handled.calls[i] \in {"ban_chat_member", "unban_chat_member", "kick_chat_member"}

Removed(member) == member \notin DOMAIN pending_captcha

\* the least the claim promises: once overdue, the member is kicked or the
\* entry is gone
C18_OverdueCaptchaIsKicked ==
    \A member \in Joiners : Overdue(member) ~> (Removed(member) \/ Kicked(member))

\* C19: within REP_COOLDOWN_SECONDS a giver raises the reputation of the same
\* receiver through +rep at most once: a +rep inside the cooldown leaves the
\* receiver's total reputation and the stored timestamp unchanged, and a +rep
\* on one's own message or on a bot's message changes no reputation.  The
\* timestamp is stored by the grant alone and a grant needs a timestamp that
\* is absent or at least REP_COOLDOWN_SECONDS old.
PlusRepStep ==
    /\ handled'.handler = "handle_message"
    /\ TriggersOf(handled'.text).plus_rep
    /\ now' = now

HasCooldown(cooldowns, giver, receiver) ==
    giver \in DOMAIN cooldowns /\ receiver \in DOMAIN cooldowns[giver]

InsideCooldown(giver, receiver) ==
    /\ HasCooldown(rep_cooldowns, giver, receiver)
    /\ now - rep_cooldowns[giver][receiver] < 3600

OthersKeepRep(receiver) ==
    \A u \in (DOMAIN reputation \cup DOMAIN reputation') \ {receiver} :
        u \in DOMAIN reputation /\ u \in DOMAIN reputation' /\ reputation'[u] = reputation[u]

Granted(giver, receiver) ==
    /\ total_rep(reputation', receiver) = total_rep(reputation, receiver) + 2
    /\ OthersKeepRep(receiver)
    /\ HasCooldown(rep_cooldowns', giver, receiver)
    /\ rep_cooldowns'[giver][receiver] = now
    /\ \A g \in DOMAIN rep_cooldowns' :
           \A r \in DOMAIN rep_cooldowns'[g] :
               <<g, r>> # <<giver, receiver>> =>
                   HasCooldown(rep_cooldowns, g, r) /\ rep_cooldowns'[g][r] = rep_cooldowns[g][r]

CooldownLaw(giver, receiver) ==
    /\ InsideCooldown(giver, receiver) =>
           reputation' = reputation /\ rep_cooldowns' = rep_cooldowns
    /\ (giver = receiver \/ receiver \in Bots \/ receiver = NoReply) =>
           reputation' = reputation /\ rep_cooldowns' = rep_cooldowns
    /\ (reputation' # reputation \/ rep_cooldowns' # rep_cooldowns) =>
           /\ Granted(giver, receiver)
           /\ ~InsideCooldown(giver, receiver)
           /\ giver # receiver /\ receiver \notin Bots

C19_OneRepPerCooldown ==
    [][/\ PlusRepStep => CooldownLaw(handled'.user_id, handled'.target)
       /\ rep_cooldowns' # rep_cooldowns => PlusRepStep]_vars

\* half an hour after member 1 gave +rep to member 2 a second +rep was
\* refused: member 2 still has the 2 points of the first one
C19_Witness ==
    /\ now = 1800
    /\ handled.handler = "handle_message"
    /\ handled.user_id = 1 /\ handled.target = 2
    /\ TriggersOf(handled.text).plus_rep
    /\ handled.calls = <<"reply_text">>
    /\ HasCooldown(rep_cooldowns, 1, 2) /\ rep_cooldowns[1][2] = 0
    /\ total_rep(reputation, 2) = 2

----
\* C21: after every flood check for a sender at time now the history of the
\* sender is the previously recorded timestamps t with now - t < 60 seconds,
\* in their order, followed by now; a timestamp 60 seconds old or older is
\* gone; and no step removes or changes an entry of a sender other than the
\* one the call is for.
FloodCheckStep == ClassifierStep /\ ChecksOf(last'.text).spam = None

YoungerThanWindow(times, t_now) == SelectSeq(times, LAMBDA t : t_now - t < 60)

PrunedThenAppended(before, after, t_now) ==
    /\ after = YoungerThanWindow(before, t_now) \o <<t_now>>
    /\ \A i \in 1..Len(after) : t_now - after[i] < 60
    /\ \A i \in 1..Len(before) :
           t_now - before[i] >= 60 => \A j \in 1..Len(after) : after[j] # before[i]

C21_HistoryIsWindowThenNow ==
    [][/\ FloodCheckStep =>
              PrunedThenAppended(history(user_message_times, last'.user_id),
                                 history(user_message_times', last'.user_id), now)
       /\ \A u \in DOMAIN user_message_times :
              (~ClassifierStep \/ u # last'.user_id) =>
                  u \in DOMAIN user_message_times'
                      /\ user_message_times'[u] = user_message_times[u]]_vars

\* a minute after the start sender 1 has lost the entry of time 0 while the
\* entry of time 0 of sender 2, who sent nothing since, is still there
C21_Witness ==
    /\ now = 60
    /\ last.op = "analyze" /\ last.user_id = 1
    /\ history(user_message_times, 1) = <<30, 60>>
    /\ history(user_message_times, 2) = <<0>>

----
\* C22: a message with an other-app phrase gets no defender pass: when it
\* matches a directed-insult pattern the harassment check returns the
\* harassment verdict with confidence 0.9, delete and warn, also when the
\* message holds positive words and the product name; analyze returns that
\* verdict unless the spam check or the flood check fires first.
OtherAppInsult(text) == FactsOf(text).other_app /\ FactsOf(text).directed

C22_OtherAppGetsNoDefenderPass ==
    (last.op = "analyze" /\ OtherAppInsult(last.text))
    => /\ IsVerdict(ChecksOf(last.text).harassment, "harassment", 90,
                    <<TRUE, TRUE, FALSE, FALSE>>)
       /\ (ChecksOf(last.text).spam = None /\ last.result.violation_type # "flood")
              => last.result = ChecksOf(last.text).harassment

\* a directed insult with praise of the product and an other-app phrase was
\* analyzed and got the harassment verdict
C22_Witness ==
    /\ last.op = "analyze"
    /\ OtherAppInsult(last.text)
    /\ FactsOf(last.text).praise
    /\ IsVerdict(last.result, "harassment", 90, <<TRUE, TRUE, FALSE, FALSE>>)

----
\* C23: in every interleaving of pending handle_message and cmd_report
\* handlers the read-prune-append of analyze is one step: a flood check
\* appends its timestamp to the history as the checks before it left it, the
\* steps between the classifier calls leave every history alone, and the
\* check that brings a sender above MAX_MESSAGES_PER_MINUTE entries within the
\* window gets the flood verdict.
Started(i) ==
    /\ i \in 1..Len(tasks)
    /\ tasks[i].pc = "start"
    /\ \/ tasks' = Remove(tasks, i)
       \/ /\ Len(tasks') = Len(tasks)
          /\ tasks'[i].pc = "enforce"
          /\ \A j \in 1..Len(tasks) : j # i => tasks'[j] = tasks[j]

NothingLost(task) ==
    \A before \in {history(user_message_times, TrackerId(task))},
       after \in {history(user_message_times', TrackerId(task))} :
        IF ChecksOf(task.text).spam = None
        THEN /\ after = before \o <<now>>
             /\ (last'.result.violation_type = "flood") <=> (Len(before) + 1 > 10)
        ELSE /\ user_message_times' = user_message_times
             /\ last'.result.violation_type = "spam"

----
\* C24: cmd_report takes automatic action on a report exactly when the
\* verdict of the primary classifier on the reported text is a violation
\* with a confidence above 0.7; a verdict derived from the reporter's reason
\* (at most 0.6) and a primary verdict of exactly 0.7 lead to no automatic
\* action, and the report stays pending.
Filed == reports'[Len(reports')]

AutoActioned == Filed.status = "actioned"

AutoExactlyAbove70(primary, verdict, calls) ==
    /\ AutoActioned <=> (primary.is_violation /\ primary.confidence > 70)
    /\ AutoActioned => /\ verdict = primary
                       /\ calls \cap EnforcementCalls # {}
                       /\ violations' # violations
    /\ ~AutoActioned => /\ Filed.status = "pending"
                        /\ IsPending(reports', Filed)
                        /\ verdict = ResultOfReason(Filed.reason)
                        /\ verdict.confidence <= 60
                        /\ calls \cap EnforcementCalls = {}
                        /\ violations' = violations
    /\ primary.confidence = 70 => ~AutoActioned

C24_AutoActionAboveSeventyPercent ==
    [][FilingStep =>
          \A primary \in {analyze(user_message_times, now, Filed.reported_message,
                                  REPORT_USER_ID).result},
             calls \in {Calls(handled')} :
              AutoExactlyAbove70(primary, last'.result, calls)]_vars

\* a report about a message with too many links (0.7) and a spam reason
\* (0.6) was filed after the window of the earlier reports had passed, and
\* was left to the admins
C24_Witness ==
    /\ handled.handler = "cmd_report"
    /\ handled.result # None
    /\ IsVerdict(ChecksOf(handled.text).external_links, "external_links", 70,
                 <<TRUE, TRUE, FALSE, FALSE>>)
    /\ handled.result.violation_type = "spam" /\ handled.result.confidence = 60
    /\ Len(reports) >= 1
    /\ reports[Len(reports)].reported_message = handled.text
    /\ reports[Len(reports)].status = "pending"
    /\ Len(reports) > MAX_MESSAGES_PER_MINUTE
    /\ violations = <<>>

----
\* C25: an analyze call that returns a spam verdict leaves the rate tracker
\* unchanged: the flood check is not evaluated (the verdict is the spam
\* verdict even when the sender is at the limit) and no timestamp is
\* recorded, so spam messages never count toward the flood total.
SpamCall == AnalyzeStep /\ last'.result.violation_type = "spam"

C25_SpamLeavesTrackerUnchanged ==
    [][/\ SpamCall => user_message_times' = user_message_times
       /\ (AnalyzeStep /\ ChecksOf(last'.text).spam # None) =>
              /\ last'.result = ChecksOf(last'.text).spam
              /\ user_message_times' = user_message_times]_vars

\* a sender with ten messages in the window sends spam: the verdict is spam
\* and the count is still ten
C25_Witness ==
    /\ last.op = "analyze"
    /\ last.user_id = 1
    /\ last.result.violation_type = "spam"
    /\ Len(prune(history(user_message_times, 1), now)) = MAX_MESSAGES_PER_MINUTE
    /\ \A k \in 1..Len(history(user_message_times, 1)) :
           history(user_message_times, 1)[k] < now

----
\* C26 (as stated): once more than MAX_MESSAGES_PER_MINUTE reports that pass
\* the spam check were analysed within 60 seconds, the next report gets the
\* flood verdict and is auto-actioned, whatever its text and reason.
FloodAutoActioned(verdict) ==
    /\ IsVerdict(verdict, "flood", 90, <<FALSE, FALSE, TRUE, FALSE>>)
    /\ AutoActioned
    /\ handled'.target = Filed.reported_user_id
    /\ Calls(handled') \cap EnforcementCalls # {}
    /\ \A rec \in {get_user_violations(violations', Filed.reported_user_id).violations} :
           /\ Len(rec) =
                Len(get_user_violations(violations, Filed.reported_user_id).violations) + 1
           /\ rec[Len(rec)].violation_type = "flood"

C26_NextReportFloodsWhateverItsText ==
    [][FilingStep =>
          \A before \in {prune(history(user_message_times, REPORT_USER_ID), now)} :
              Len(before) > MAX_MESSAGES_PER_MINUTE => FloodAutoActioned(last'.result)]_vars

\* C26 (amended): every report whose text passes the spam check records one
\* timestamp under id 0, whoever files it against whom; when ten or more
\* such reports are in the 60 second window, the next report whose text
\* passes the spam check gets the flood verdict, whatever its reason, and
\* cmd_report auto-actions it against the reported user; a report whose text
\* fires the spam check records nothing and gets no flood verdict.
CountedUnderZero(before) ==
    /\ history(user_message_times', REPORT_USER_ID) = Append(before, now)
    /\ \A u \in DOMAIN user_message_times :
           u # REPORT_USER_ID => /\ u \in DOMAIN user_message_times'
                                 /\ user_message_times'[u] = user_message_times[u]
    /\ DOMAIN user_message_times' \subseteq DOMAIN user_message_times \cup {REPORT_USER_ID}

ReportFloodLaw(before, spam, verdict) ==
    IF spam = None
    THEN /\ CountedUnderZero(before)
         /\ IF Len(before) >= MAX_MESSAGES_PER_MINUTE
            THEN FloodAutoActioned(verdict)
            ELSE verdict.violation_type # "flood"
    ELSE /\ user_message_times' = user_message_times
         /\ verdict.violation_type # "flood"

C26_SpamlessReportsFloodTrackerZero ==
    [][FilingStep =>
          \A before \in {prune(history(user_message_times, REPORT_USER_ID), now)} :
              ReportFloodLaw(before, ChecksOf(Filed.reported_message).spam,
                             last'.result)]_vars

\* the eleventh report within a minute, filed by user 2 against user 1 with a
\* spam reason, got the flood verdict and user 1 was muted for it
C26_Witness ==
    /\ handled.handler = "cmd_report"
    /\ handled.user_id = 2 /\ handled.target = 1
    /\ handled.result # None
    /\ IsVerdict(handled.result, "flood", 90, <<FALSE, FALSE, TRUE, FALSE>>)
    /\ Len(reports) = MAX_MESSAGES_PER_MINUTE + 1
    /\ reports[Len(reports)].status = "actioned"
    /\ reports[Len(reports)].reason = "this is spam advertising"
    /\ "mute_user" \in Calls(handled)
    /\ get_user_violations(violations, 1).mutes = 1

----
\* C27: in the harassment check the second leniency test (has_positive and
\* has_relay) and the defender override inside the directed-pattern loop
\* never decide an outcome: whenever one of them holds the first defender
\* test has already returned None, and the check without the two returns the
\* same result for every text.
first_defender_test(text_lower) ==
    (has_positive(text_lower) \/ is_defending(text_lower))
    /\ has_relay(text_lower) /\ ~mentions_other(text_lower)

second_leniency_test(text_lower) == has_positive(text_lower) /\ has_relay(text_lower)

inner_override(text_lower) ==
    /\ matches_directed(text_lower)
    /\ has_relay(text_lower) /\ (has_positive(text_lower) \/ is_defending(text_lower))

\* _check_harassment without the second test and without the inner override
_check_harassment_reduced(text_lower) ==
    IF first_defender_test(text_lower) THEN None
    ELSE IF matches_directed(text_lower)
    THEN AnalysisResult(TRUE, "harassment", 90,
             "Directed insult or harassment detected",
             TRUE, TRUE, FALSE, FALSE)
    ELSE IF matches_offensive(text_lower) /\ Len(text_lower) < 30 /\ ~has_relay(text_lower)
    THEN AnalysisResult(TRUE, "harassment", 60,
             "Potentially offensive language",
             FALSE, TRUE, FALSE, FALSE)
    ELSE None

LeniencyFacts ==
    {<<t, [first   |-> first_defender_test(lower(t)),
           second  |-> second_leniency_test(lower(t)),
           inner   |-> inner_override(lower(t)),
           reduced |-> _check_harassment_reduced(lower(t))]>> : t \in Texts \cup FloodTexts}

LeniencyOf(text) == (CHOOSE p \in LeniencyFacts : p[1] = text)[2]

C27_LaterDefenderTestsAreDead ==
    last.op \in {"analyze", "analyze_report"} =>
        \A f \in {LeniencyOf(last.text)} :
            /\ (f.second \/ f.inner) => f.first
            /\ f.reduced = ChecksOf(last.text).harassment

\* a directed insult inside praise of Relay was analysed: both later tests
\* hold, and the first test had already let the message pass
C27_Witness ==
    /\ last.op = "analyze"
    /\ LeniencyOf(last.text).second
    /\ LeniencyOf(last.text).inner
    /\ LeniencyOf(last.text).first
    /\ FactsOf(last.text).directed
    /\ ChecksOf(last.text).harassment = None
    /\ last.result.violation_type # "harassment"

----
\* C28: a message whose lower-cased text contains "+rep" or "+ rep" is never
\* passed to analyze by handle_message: whatever else it contains and
\* whether or not it is a reply, it causes no enforcement action, no
\* violation record and no timestamp in the rate tracker.
PlusRepMessage ==
    /\ now' = now
    /\ handled'.handler = "handle_message"
    /\ TriggersOf(handled'.text).plus_rep

C28_PlusRepIsNeverAnalysed ==
    [][PlusRepMessage =>
          /\ handled'.result = None
          /\ last' = last
          /\ user_message_times' = user_message_times
          /\ violations' = violations
          /\ Calls(handled') \cap EnforcementCalls = {}
          /\ Calls(handled') \subseteq {"reply_text", "add_rep"}]_vars

\* a +rep reply that also carries a spam link and an insult gave reputation
\* to user 2, and its sender has no violation and no timestamp
C28_Witness ==
    /\ handled.handler = "handle_message"
    /\ handled.user_id = 1 /\ handled.target = 2
    /\ TriggersOf(handled.text).plus_rep
    /\ ChecksOf(handled.text).spam # None
    /\ ChecksOf(handled.text).harassment # None
    /\ ChecksOf(handled.text).external_links # None
    /\ "add_rep" \in Calls(handled)
    /\ violations = <<>>
    /\ history(user_message_times, 1) = <<>>

----
\* C29: an admin review of a report through /review or a review button with
\* action warn, mute or ban only sets the report's status to actioned with a
\* note: no warn, mute or ban is performed, no violation is recorded and the
\* user's counters stay as they are; it is applied whatever the report's
\* current status.
AdminDecision ==
    /\ handled'.handler \in {"cmd_review", "handle_review_callback"}
    /\ handled'.user_id \in ADMIN_IDS
    /\ handled'.text \in {"warn", "mute", "ban"}

OnlyMarksActioned(report_id, action) ==
    /\ Len(reports') = Len(reports)
    /\ \A i \in 1..Len(reports) :
           reports'[i] = IF reports[i].id = report_id
                         THEN [reports[i] EXCEPT !.status = "actioned",
                                                 !.admin_notes = "Admin action: " \o action]
                         ELSE reports[i]
    /\ violations' = violations
    /\ user_message_times' = user_message_times
    /\ last' = last
    /\ Calls(handled') \cap EnforcementCalls = {}

C29_ReviewOnlyMarksTheReport ==
    [][AdminDecision => OnlyMarksActioned(handled'.target, handled'.text)]_vars

\* a report that cmd_report had auto-actioned with a ban was decided again by
\* an admin with the ban button: the note is the admin's, and the reported
\* user still has the one ban of the automatic action
C29_Witness ==
    /\ handled.handler = "handle_review_callback"
    /\ handled.user_id \in ADMIN_IDS
    /\ handled.target = 1 /\ handled.text = "ban"
    /\ Len(reports) >= 1
    /\ ChecksOf(reports[1].reported_message).spam # None
    /\ reports[1].status = "actioned"
    /\ reports[1].admin_notes = "Admin action: ban"
    /\ get_user_violations(violations, reports[1].reported_user_id).bans = 1
    /\ Len(get_user_violations(violations, reports[1].reported_user_id).violations) = 1

----
\* C30: for every puzzle whose answer value is listed among its options, the
\* index handle_new_member encodes as correct is the index of the option
\* equal to the answer, so the member is unrestricted exactly when they click
\* the option that shows the right answer.
\* Python's ==: an int never equals a str
Shows(option, answer) == ToString(option) = ToString(answer)

AnswerListed(puzzle) == \E i \in 1..Len(puzzle.options) : Shows(puzzle.options[i], puzzle.a)

\* the bot has just sent this puzzle to the member
Asked(member, puzzle) ==
    /\ handled'.handler = "handle_new_member"
    /\ handled'.target = member
    /\ handled'.text = puzzle.q
    /\ member \in DOMAIN pending_captcha'

\* the member clicks button i (from 0) of the puzzle they were just sent
Clicks(member, puzzle, i) ==
    /\ handled.handler = "handle_new_member"
    /\ handled.target = member
    /\ handled.text = puzzle.q
    /\ handled'.handler = "handle_captcha_callback"
    /\ handled'.user_id = member /\ handled'.target = member
    /\ handled'.text = str(i)

Unrestricted(member) ==
    /\ "restrict_chat_member" \in Calls(handled')
    /\ member \notin DOMAIN pending_captcha'

C30_RightOptionUnrestricts ==
    [][\A member \in Joiners, k \in 1..Len(WELCOME_PUZZLES) :
          AnswerListed(WELCOME_PUZZLES[k]) =>
              /\ Asked(member, WELCOME_PUZZLES[k]) =>
                     Shows(WELCOME_PUZZLES[k].options[pending_captcha'[member].correct + 1],
                           WELCOME_PUZZLES[k].a)
              /\ \A i \in 0..(Len(WELCOME_PUZZLES[k].options) - 1) :
                     Clicks(member, WELCOME_PUZZLES[k], i) =>
                         (Unrestricted(member)
                              <=> Shows(WELCOME_PUZZLES[k].options[i + 1],
                                        WELCOME_PUZZLES[k].a))]_vars
====
